---- MODULE Spec2Model ----
(***************************************************************************)
(* Verification model of the ml-api training-artifact lifecycle:          *)
(*   - split_dataset and its three strategies (dataset_io.py), as          *)
(*     operators that return the SET of results a call can produce;        *)
(*   - the DataSplit lifecycle: SplitService.create_split                  *)
(*     (split_service.py) and the update_split / delete_split routes       *)
(*     (routes/splits.py) against the metadata store and the object store; *)
(*   - save_model_artifacts and save_trial_artifacts (artifact_io.py);     *)
(*   - the model registry: versions and stages (model_registry.py);        *)
(*   - preprocess_features and apply_preprocessing (preprocess.py);        *)
(*   - get_trainer and get_default_metric (dispatcher.py);                 *)
(*   - RequestIDMiddleware and the exception handlers (logging.py,         *)
(*     exceptions.py), the health routes and GCSClient (health.py,         *)
(*     clients.py);                                                        *)
(*   - object keys as paths: save, load and delete of model artifacts;     *)
(*   - the trainers' train (catboost, xgboost, lightgbm);                  *)
(*   - the partition sizes of the three strategies, on row counts.         *)
(*                                                                         *)
(* Ratios are kept in thousandths (0.7 is 700).  For the row counts and    *)
(* ratios enumerated below the exact product n*ratio and its IEEE double   *)
(* agree after truncation, and no enumerated ratio sum lies on the         *)
(* boundary of the tolerance, where the double comparison is decisive.     *)
(***************************************************************************)
EXTENDS Integers, Sequences, FiniteSets, TLC

VARIABLES
    \* ---- split_dataset under test (two successive calls, same inputs)
    df,          \* the input frame: sequence of rows [id, t, e]
    strategy,    \* the strategy string handed to split_dataset
    params,      \* the params mapping handed to split_dataset
    res1,        \* outcome of the first call
    res2,        \* outcome of the second call
    calls,       \* number of calls made so far
    \* ---- DataSplit lifecycle
    db,          \* metadata store: split id -> committed row (or NoRow)
    gcs,         \* object store: set of blob keys <<split id, part>>
    cs,          \* per create_split call: its position, request and locals
    ds,          \* per delete_split call
    us,          \* per update_split call
    \* ---- model and trial artifacts in the object store
    blobs,       \* artifact blobs: set of keys [root, exp, num, file]
    sm,          \* the save_model_artifacts call in progress
    st,          \* the save_trial_artifacts call in progress
    saves,       \* number of save calls started so far
    \* ---- model registry
    reg,         \* registry rows in insertion order: [exp, version, stage]
    rc,          \* per registry creation: its position and locals
    regOps,      \* number of registry operations started so far
    \* ---- preprocessing (fit, then apply)
    pin,         \* arguments of preprocess_features
    fit,         \* outcome of preprocess_features
    ain,         \* frame handed to apply_preprocessing
    app,         \* outcome of apply_preprocessing
    \* ---- trainer dispatch
    disp,        \* arguments and outcomes of get_trainer / get_default_metric
    \* ---- request handling: RequestIDMiddleware and the exception handlers
    http,        \* the request in flight: header, request.state, response
    \* ---- health routes and the GCS client singleton
    world,       \* what is reachable: the database, the bucket
    gclient,     \* GCSClient: its cached _bucket
    hres,        \* outcome of the last health or client call
    hcalls,      \* number of such calls so far
    \* ---- object keys as paths: save, load and delete of artifacts
    store,       \* object store: key (a path) -> content
    sop,         \* the last artifact operation and its outcome
    sops,        \* number of artifact operations so far
    \* ---- trainers
    trn,         \* arguments and outcome of a trainer's train
    \* ---- partition sizes
    sz           \* row count, strategy, ratios and the sizes computed

splitVars == <<df, strategy, params, res1, res2, calls>>
svcVars   == <<db, gcs, cs, ds, us>>
artVars   == <<blobs, sm, st, saves>>
regVars   == <<reg, rc, regOps>>
preVars   == <<pin, fit, ain, app>>
dispVars  == <<disp>>
httpVars  == <<http>>
healthVars == <<world, gclient, hres, hcalls>>
storeVars == <<store, sop, sops>>
trainVars == <<trn>>
sizeVars  == <<sz>>
lateVars  == <<httpVars, healthVars, storeVars, trainVars, sizeVars>>
extVars   == <<artVars, regVars, preVars, dispVars, lateVars>>
baseVars  == <<splitVars, svcVars, artVars, regVars, preVars, dispVars, sizeVars>>
vars      == <<df, strategy, params, res1, res2, calls, db, gcs, cs, ds, us,
               blobs, sm, st, saves, reg, rc, regOps, pin, fit, ain, app, disp,
               http, world, gclient, hres, hcalls, store, sop, sops, trn, sz>>

-----------------------------------------------------------------------------
(* Bounds of the model *)

MaxRows == 3

Times == {1, 2}
Ents  == {"a", "b"}

-----------------------------------------------------------------------------
(* Small helpers *)

Min(a, b) == IF a < b THEN a ELSE b
Max(a, b) == IF a > b THEN a ELSE b
Abs(a)    == IF a < 0 THEN -a ELSE a

Range(s) == {s[i] : i \in DOMAIN s}

\* all orderings of a finite set, as sequences
PermsOf(S) ==
    {f \in [1..Cardinality(S) -> S] : \A i, j \in DOMAIN f : i # j => f[i] # f[j]}

\* all reorderings of a sequence
Reorderings(s) == {[i \in 1..Len(s) |-> s[p[i]]] : p \in PermsOf(1..Len(s))}

\* a dict entry: <<>> when the key is absent, <<v>> when it is present
Absent == <<>>
Get(entry, default) == IF entry = Absent THEN default ELSE entry[1]

\* params["seed"]: key absent, key present with None, or an integer
SeedAbsent == [key |-> FALSE, none |-> FALSE, v |-> 0]
SeedNone   == [key |-> TRUE,  none |-> TRUE,  v |-> 0]
SeedInt(n) == [key |-> TRUE,  none |-> FALSE, v |-> n]

-----------------------------------------------------------------------------
(* dataset_io.py *)

DefaultTrainRatio == 700
DefaultValRatio   == 150
DefaultTestRatio  == 150
DefaultSeed       == 42
RatioTolerance    == 1

DataProcessingError == "data_processing_error"

Failure(kind) == [ok |-> FALSE, err |-> kind, train |-> <<>>, val |-> <<>>, test |-> <<>>]
Partitions(tr, va, te) == [ok |-> TRUE, err |-> "", train |-> tr, val |-> va, test |-> te]
NoResult == Failure("")

\* int(n * ratio): truncation toward zero
IntOfProduct(n, ratio) ==
    IF n * ratio >= 0 THEN (n * ratio) \div 1000 ELSE -((-(n * ratio)) \div 1000)

\* Python slice index normalisation (slice.indices with step 1)
SliceIndex(i, n) == IF i < 0 THEN Max(i + n, 0) ELSE Min(i, n)

\* frame[start:stop]
Slice(s, start, stop) ==
    LET lo == SliceIndex(start, Len(s))
        hi == SliceIndex(stop, Len(s))
    IN  IF lo >= hi THEN <<>> ELSE SubSeq(s, lo + 1, hi)

\* frame[start:]
SliceFrom(s, start) ==
    LET lo == SliceIndex(start, Len(s))
    IN  IF lo >= Len(s) THEN <<>> ELSE SubSeq(s, lo + 1, Len(s))

\* the three slices [:train_end], [train_end:val_end], [val_end:]
CutByRatio(s, train_ratio, val_ratio) ==
    LET n         == Len(s)
        train_end == IntOfProduct(n, train_ratio)
        val_end   == train_end + IntOfProduct(n, val_ratio)
    IN  Partitions(Slice(s, 0, train_end), Slice(s, train_end, val_end), SliceFrom(s, val_end))

\* the seeded generator behind sample(shuffle=True, seed=k): a fixed function
\* of the seed (a linear congruential stream driving a Fisher-Yates draw)
LcgNext(x) == (x * 75 + 74) % 65537

RemoveAt(s, k) == [i \in 1..(Len(s) - 1) |-> IF i < k THEN s[i] ELSE s[i + 1]]

RECURSIVE ShuffleFrom(_, _)
ShuffleFrom(s, x) ==
    IF Len(s) <= 1 THEN s
    ELSE LET k == (x % Len(s)) + 1
         IN  <<s[k]>> \o ShuffleFrom(RemoveAt(s, k), LcgNext(x))

\* frame.sample(fraction=1.0, shuffle=True, seed=seed): with an integer seed
\* one order, with seed=None any order
SampleShuffle(s, seed) ==
    IF seed.none THEN Reorderings(s) ELSE {ShuffleFrom(s, LcgNext(seed.v))}

\* the seed is dropped on the way to sample()
SeedOf_Unseeded(p) == SeedNone

SeedOf(p) == IF p.seed.key THEN p.seed ELSE SeedInt(DefaultSeed)

RatioSum(p) ==
    Get(p.train_ratio, DefaultTrainRatio) + Get(p.val_ratio, DefaultValRatio)
        + Get(p.test_ratio, DefaultTestRatio)

\* the absolute value is forgotten: only sums above 1.0 are rejected
RatioSumOutOfTolerance_NoAbs(p) == RatioSum(p) - 1000 > RatioTolerance

RatioSumOutOfTolerance(p) == Abs(RatioSum(p) - 1000) > RatioTolerance

_split_random(frame, p) ==
    IF RatioSumOutOfTolerance(p)
    THEN {Failure(DataProcessingError)}
    ELSE {CutByRatio(sh, Get(p.train_ratio, DefaultTrainRatio), Get(p.val_ratio, DefaultValRatio)) :
             sh \in SampleShuffle(frame, SeedOf(p))}

Columns == {"t", "e"}

IsSortedByTime(s) == \A i, j \in DOMAIN s : i < j => s[i].t <= s[j].t

\* the sort is left out
SortByTime_Unsorted(frame) == Reorderings(frame)

\* frame.sort(time_column): ascending; the order of rows with equal keys is
\* not fixed by the call
SortByTime(frame) == {s \in Reorderings(frame) : IsSortedByTime(s)}

_split_time_based(frame, p) ==
    IF p.time_column = "" \/ p.time_column \notin Columns
    THEN {Failure(DataProcessingError)}
    ELSE {CutByRatio(s, Get(p.train_ratio, DefaultTrainRatio), Get(p.val_ratio, DefaultValRatio)) :
             s \in SortByTime(frame)}

\* col.unique(): the distinct values, in an order the call does not fix
UniqueEntities(frame) == PermsOf({frame[i].e : i \in DOMAIN frame})

\* frame.join(entities, on=entity_column, how="inner")
JoinInner(frame, entities) ==
    LET keep(r) == r.e \in Range(entities)
    IN  SelectSeq(frame, keep)

_split_entity_based(frame, p) ==
    IF p.entity_column = "" \/ p.entity_column \notin Columns
    THEN {Failure(DataProcessingError)}
    ELSE {LET cut == CutByRatio(sh, Get(p.train_ratio, DefaultTrainRatio),
                                Get(p.val_ratio, DefaultValRatio))
          IN  Partitions(JoinInner(frame, cut.train), JoinInner(frame, cut.val),
                         JoinInner(frame, cut.test)) :
             sh \in UNION {SampleShuffle(u, SeedOf(p)) : u \in UniqueEntities(frame)}}

split_dataset(frame, strat, p) ==
    IF strat = "random" THEN _split_random(frame, p)
    ELSE IF strat = "time_based" THEN _split_time_based(frame, p)
    ELSE IF strat = "entity_based" THEN _split_entity_based(frame, p)
    ELSE {Failure(DataProcessingError)}

-----------------------------------------------------------------------------
(* Inputs of split_dataset *)

Strategies == {"random", "time_based", "entity_based", "unknown"}

RatioTriples ==
    { <<Absent, Absent, Absent>>,
      << <<500>>, <<250>>, <<250>> >>,
      << <<340>>, <<340>>, <<320>> >>,
      << <<500>>, <<250>>, <<100>> >>,
      << <<500>>, <<-500>>, <<1000>> >> }

SeedChoices == {SeedAbsent, SeedNone, SeedInt(7)}

ColumnChoices == {"", "present", "missing"}

ParamsOf(r, s, c) ==
    [train_ratio   |-> r[1], val_ratio |-> r[2], test_ratio |-> r[3], seed |-> s,
     time_column   |-> IF c = "present" THEN "t" ELSE IF c = "missing" THEN "ts" ELSE "",
     entity_column |-> IF c = "present" THEN "e" ELSE IF c = "missing" THEN "user" ELSE ""]

ParamChoices == {ParamsOf(r, s, c) : r \in RatioTriples, s \in SeedChoices, c \in ColumnChoices}

Frames ==
    UNION {{[i \in 1..n |-> [id |-> i, t |-> ts[i], e |-> es[i]]] :
               ts \in [1..n -> Times], es \in [1..n -> Ents]} : n \in 0..MaxRows}

-----------------------------------------------------------------------------
(* The DataSplit lifecycle: metadata store, object store, requests *)

MaxCreates == 1     \* create_split calls
MaxOps     == 1     \* update_split and delete_split calls together

CreateIds == 1..MaxCreates     \* uuid4() of each create_split call
DeleteIds == 1..MaxOps
UpdateIds == 1..MaxOps

Null == <<>>

Parts == {"train", "val", "test"}

DefaultParams == ParamsOf(<<Absent, Absent, Absent>>, SeedAbsent, "")
BadSumParams  == ParamsOf(<< <<500>>, <<250>>, <<100>> >>, SeedAbsent, "")

NoRow ==
    [exists |-> FALSE, status |-> "", split_params |-> DefaultParams,
     train_uri |-> Null, val_uri |-> Null, test_uri |-> Null,
     row_count_train |-> Null, row_count_val |-> Null, row_count_test |-> Null]

ServiceParams == {DefaultParams, BadSumParams}

\* DataSplitCreate: inline_rows = 0 is inline_data None or []; uri "" is None,
\* "ok" names a readable dataset, "bad" one that cannot be loaded
Request(n, uri, p) ==
    [inline_rows |-> n, uri |-> uri, split_strategy |-> "random", split_params |-> p]

Requests ==
    {Request(2, "", DefaultParams), Request(2, "", BadSumParams),
     Request(0, "ok", DefaultParams), Request(0, "bad", DefaultParams),
     Request(0, "", DefaultParams)}

NoRequest ==
    [inline_rows |-> 0, uri |-> "", split_strategy |-> "random", split_params |-> DefaultParams]

FrameOfSize(n) == [i \in 1..n |-> [id |-> i, t |-> 1, e |-> "a"]]

IdleCreate ==
    [pc |-> "idle", req |-> NoRequest, rows |-> 0, counts |-> Null, cause |-> "", err |-> ""]

IdleDelete == [pc |-> "idle", id |-> 0, delete_artifacts |-> FALSE, loaded |-> NoRow]

IdleUpdate ==
    [pc |-> "idle", id |-> 0, has_params |-> FALSE, split_params |-> DefaultParams,
     loaded |-> NoRow]

SvcInit ==
    /\ db  = [id \in CreateIds |-> NoRow]
    /\ gcs = {}
    /\ cs  = [c \in CreateIds |-> IdleCreate]
    /\ ds  = [d \in DeleteIds |-> IdleDelete]
    /\ us  = [u \in UpdateIds |-> IdleUpdate]

-----------------------------------------------------------------------------
(* SplitService.create_split, one action per await / collaborator call.      *)
(* A commit either applies the session's changed attributes to the stored   *)
(* row or raises and applies nothing.                                       *)

PendingRow(req) ==
    [exists |-> TRUE, status |-> "pending", split_params |-> req.split_params,
     train_uri |-> Null, val_uri |-> Null, test_uri |-> Null,
     row_count_train |-> Null, row_count_val |-> Null, row_count_test |-> Null]

BlobUri(id, part) == <<id, part>>

\* the test location is not assigned before the status turns ready
ReadyUpdate_NoTestUri(row, id, counts) ==
    [row EXCEPT !.train_uri = BlobUri(id, "train"),
                !.val_uri = BlobUri(id, "val"),
                !.row_count_train = <<counts[1]>>,
                !.row_count_val = <<counts[2]>>,
                !.row_count_test = <<counts[3]>>,
                !.status = "ready"]

\* lines 91-103: the UPDATE flushed by the final commit
ReadyUpdate(row, id, counts) ==
    [row EXCEPT !.train_uri = BlobUri(id, "train"),
                !.val_uri = BlobUri(id, "val"),
                !.test_uri = BlobUri(id, "test"),
                !.row_count_train = <<counts[1]>>,
                !.row_count_val = <<counts[2]>>,
                !.row_count_test = <<counts[3]>>,
                !.status = "ready"]

\* lines 121-122: the UPDATE flushed by the handler's commit
FailedUpdate(row) == IF row.exists THEN [row EXCEPT !.status = "failed"] ELSE row

Raise(c, kind) == cs' = [cs EXCEPT ![c].pc = "except", ![c].cause = kind]

\* lines 45-56: build the row, add, commit
AddCommit(c) ==
    /\ cs[c].pc = "idle"
    /\ \E req \in Requests, ok \in BOOLEAN :
          IF ok
          THEN /\ db' = [db EXCEPT ![c] = PendingRow(req)]
               /\ cs' = [cs EXCEPT ![c].pc = "load", ![c].req = req]
          ELSE /\ cs' = [cs EXCEPT ![c].pc = "except", ![c].req = req,
                                   ![c].cause = "external_service_error"]
               /\ UNCHANGED db
    /\ UNCHANGED <<gcs, ds, us, splitVars, extVars>>

\* lines 59-64
LoadData(c) ==
    /\ cs[c].pc = "load"
    /\ IF cs[c].req.inline_rows > 0
       THEN cs' = [cs EXCEPT ![c].pc = "split", ![c].rows = cs[c].req.inline_rows]
       ELSE IF cs[c].req.uri # ""
       THEN IF cs[c].req.uri = "ok"
            THEN cs' = [cs EXCEPT ![c].pc = "split", ![c].rows = 2]
            ELSE Raise(c, DataProcessingError)
       ELSE Raise(c, "validation_error")
    /\ UNCHANGED <<db, gcs, ds, us, splitVars, extVars>>

\* lines 67-71
SplitData(c) ==
    /\ cs[c].pc = "split"
    /\ \E r \in split_dataset(FrameOfSize(cs[c].rows), cs[c].req.split_strategy,
                              cs[c].req.split_params) :
          IF r.ok
          THEN cs' = [cs EXCEPT ![c].pc = "save_train",
                                ![c].counts = <<Len(r.train), Len(r.val), Len(r.test)>>]
          ELSE Raise(c, r.err)
    /\ UNCHANGED <<db, gcs, ds, us, splitVars, extVars>>

NextAfterSave(part) ==
    IF part = "train" THEN "save_val" ELSE IF part = "val" THEN "save_test" ELSE "commit"

\* lines 74-88: save_dataset_to_gcs for train, val, test in turn
SaveDataset(c) ==
    /\ \E part \in Parts, ok \in BOOLEAN :
          /\ cs[c].pc = IF part = "train" THEN "save_train"
                        ELSE IF part = "val" THEN "save_val" ELSE "save_test"
          /\ IF ok
             THEN /\ gcs' = gcs \cup {BlobUri(c, part)}
                  /\ cs' = [cs EXCEPT ![c].pc = NextAfterSave(part)]
             ELSE /\ Raise(c, DataProcessingError)
                  /\ UNCHANGED gcs
    /\ UNCHANGED <<db, ds, us, splitVars, extVars>>

\* lines 91-117
FinalCommit(c) ==
    /\ cs[c].pc = "commit"
    /\ \E ok \in BOOLEAN :
          IF ok
          THEN /\ db' = [db EXCEPT ![c] = ReadyUpdate(db[c], c, cs[c].counts)]
               /\ cs' = [cs EXCEPT ![c].pc = "returned"]
          ELSE /\ Raise(c, "external_service_error")
               /\ UNCHANGED db
    /\ UNCHANGED <<gcs, ds, us, splitVars, extVars>>

\* lines 119-125: mark failed, commit, raise DataProcessingError; when the
\* handler's own commit raises, that exception is what reaches the caller
ExceptHandler(c) ==
    /\ cs[c].pc = "except"
    /\ \E ok \in BOOLEAN :
          IF ok
          THEN /\ db' = [db EXCEPT ![c] = FailedUpdate(db[c])]
               /\ cs' = [cs EXCEPT ![c].pc = "raised", ![c].err = DataProcessingError]
          ELSE /\ cs' = [cs EXCEPT ![c].pc = "raised", ![c].err = "internal_error"]
               /\ UNCHANGED db
    /\ UNCHANGED <<gcs, ds, us, splitVars, extVars>>

-----------------------------------------------------------------------------
(* routes/splits.py: update_split and delete_split *)

\* lines 140-143: only split_params is written
ParamsUpdate(row, u) ==
    IF u.has_params /\ u.split_params # u.loaded.split_params
    THEN [row EXCEPT !.split_params = u.split_params]
    ELSE row

\* an idle call slot, slots being taken in order, while calls remain
OpsStarted ==
    Cardinality({d \in DeleteIds : ds[d].pc # "idle"})
        + Cardinality({u \in UpdateIds : us[u].pc # "idle"})

OpSlotFree(slots, k) ==
    /\ OpsStarted < MaxOps
    /\ \A j \in DOMAIN slots : j < k => slots[j].pc # "idle"

\* DataSplitUpdate: split_params None or a mapping
UpdateRequests ==
    {[has_params |-> FALSE, split_params |-> DefaultParams]}
        \cup {[has_params |-> TRUE, split_params |-> p] : p \in ServiceParams}

\* lines 133-137
UpdateSelect(u) ==
    /\ us[u].pc = "idle"
    /\ OpSlotFree(us, u)
    /\ \E id \in CreateIds, req \in UpdateRequests :
          us' = [us EXCEPT ![u] =
                    IF db[id].exists
                    THEN [pc |-> "commit", id |-> id, has_params |-> req.has_params,
                          split_params |-> req.split_params, loaded |-> db[id]]
                    ELSE [IdleUpdate EXCEPT !.pc = "not_found"]]
    /\ UNCHANGED <<db, gcs, cs, ds, splitVars, extVars>>

\* lines 140-147
UpdateCommit(u) ==
    /\ us[u].pc = "commit"
    /\ \E ok \in BOOLEAN :
          IF ok
          THEN /\ db' = [db EXCEPT ![us[u].id] = ParamsUpdate(db[us[u].id], us[u])]
               /\ us' = [us EXCEPT ![u] = [IdleUpdate EXCEPT !.pc = "returned"]]
          ELSE /\ us' = [us EXCEPT ![u] = [IdleUpdate EXCEPT !.pc = "raised"]]
               /\ UNCHANGED db
    /\ UNCHANGED <<gcs, cs, ds, splitVars, extVars>>

\* the soft delete also forgets the artifact locations
SoftDeleteUpdate_ClearsUris(row, loaded) ==
    [row EXCEPT !.status = "failed", !.train_uri = Null, !.val_uri = Null, !.test_uri = Null]

\* line 174 and the commit of line 187: the soft delete writes status only
SoftDeleteUpdate(row, loaded) ==
    IF loaded.status # "failed" THEN [row EXCEPT !.status = "failed"] ELSE row

\* lines 167-174
DeleteSelect(d) ==
    /\ ds[d].pc = "idle"
    /\ OpSlotFree(ds, d)
    /\ \E id \in CreateIds, flag \in BOOLEAN :
          ds' = [ds EXCEPT ![d] =
                    IF db[id].exists
                    THEN [pc |-> IF flag THEN "artifacts" ELSE "commit",
                          id |-> id, delete_artifacts |-> flag, loaded |-> db[id]]
                    ELSE [IdleDelete EXCEPT !.pc = "not_found"]]
    /\ UNCHANGED <<db, gcs, cs, us, splitVars, extVars>>

LoadedUris(row) == {row.train_uri, row.val_uri, row.test_uri} \ {Null}

\* lines 176-185: delete every blob the loaded row names; a delete that
\* raises is logged and skipped
DeleteArtifacts(d) ==
    /\ ds[d].pc = "artifacts"
    /\ \E kept \in SUBSET LoadedUris(ds[d].loaded) :
          gcs' = gcs \ (LoadedUris(ds[d].loaded) \ kept)
    /\ ds' = [ds EXCEPT ![d].pc = "commit"]
    /\ UNCHANGED <<db, cs, us, splitVars, extVars>>

\* line 187
DeleteCommit(d) ==
    /\ ds[d].pc = "commit"
    /\ \E ok \in BOOLEAN :
          IF ok
          THEN /\ db' = [db EXCEPT ![ds[d].id] = SoftDeleteUpdate(db[ds[d].id], ds[d].loaded)]
               /\ ds' = [ds EXCEPT ![d] = [IdleDelete EXCEPT !.pc = "returned"]]
          ELSE /\ ds' = [ds EXCEPT ![d] = [IdleDelete EXCEPT !.pc = "raised"]]
               /\ UNCHANGED db
    /\ UNCHANGED <<gcs, cs, us, splitVars, extVars>>

-----------------------------------------------------------------------------
(* artifact_io.py: save_model_artifacts and save_trial_artifacts against the *)
(* object store.  A blob key is the record [root, exp, num, file] standing   *)
(* for the path {root}/{exp}/v{num}/{file} (models) or                       *)
(* {root}/{exp}/trials/{num}/{file} (trials); a base URI is the record       *)
(* [root, exp, num] standing for gs://{bucket}/{that directory}.  Each       *)
(* collaborator call (trainer.save_model, an upload) is one step and either  *)
(* succeeds or raises.                                                       *)

MaxSaves == 2

ExperimentIds == {1}
VersionNumbers == {1, 2}
TrialNumbers == {0, 1}
SavedModelTypes == {"xgboost", "sklearn"}

ExternalServiceError == "external_service_error"

get_model_extension(model_type) ==
    CASE model_type = "catboost" -> ".cbm"
      [] model_type = "xgboost"  -> ".json"
      [] model_type = "lightgbm" -> ".txt"
      [] OTHER                   -> ".pkl"

ModelFile(model_type) == "model" \o get_model_extension(model_type)

BlobKey(root, exp, num, file) ==
    [root |-> root, exp |-> exp, num |-> num, file |-> file]

BaseUri(root, exp, num) == [root |-> root, exp |-> exp, num |-> num]

\* the empty string returned by save_trial_artifacts
NoUri == [root |-> "", exp |-> 0, num |-> 0]

\* the uploads of save_model_artifacts, in the order the code issues them
ModelArtifactFiles(model_type) ==
    <<ModelFile(model_type), "preprocess.json", "postprocess.json",
      "metrics.json", "signature.json">>

\* the uploads of save_trial_artifacts, in the order the code issues them
TrialArtifactFiles(model_type) == <<ModelFile(model_type), "metadata.json">>

IdleSave ==
    [pc |-> "idle", exp |-> 0, num |-> 0, model_type |-> "", next |-> 1,
     written |-> {}, uri |-> NoUri, err |-> "", failed |-> FALSE]

ArtIdle ==
    /\ blobs = {}
    /\ sm = IdleSave
    /\ st = IdleSave
    /\ saves = 0

CallStopped(call) == call.pc \in {"idle", "returned", "raised"}

BeginSave(exp, num, model_type) ==
    [IdleSave EXCEPT !.pc = "serialize", !.exp = exp, !.num = num,
                     !.model_type = model_type]

\* ---- save_model_artifacts

\* except Exception: log, raise ExternalServiceError (nothing is deleted)
SaveModelFailure(call) ==
    [call EXCEPT !.pc = "raised", !.err = ExternalServiceError,
                 !.failed = TRUE]

SaveModelBegin ==
    /\ CallStopped(sm)
    /\ saves < MaxSaves
    /\ \E e \in ExperimentIds, v \in VersionNumbers, t \in SavedModelTypes :
           sm' = BeginSave(e, v, t)
    /\ saves' = saves + 1
    /\ UNCHANGED <<blobs, st, lateVars, splitVars, svcVars, regVars, preVars, dispVars>>

\* trainer.save_model(model, tmp.name)
SaveModelSerialize ==
    /\ sm.pc = "serialize"
    /\ \/ sm' = [sm EXCEPT !.pc = "upload"]
       \/ sm' = SaveModelFailure(sm)
    /\ UNCHANGED <<blobs, st, saves, lateVars, splitVars, svcVars, regVars, preVars,
                   dispVars>>

\* the next gcs_client.upload_file / upload_json; after the last one, return
SaveModelUpload ==
    /\ sm.pc = "upload"
    /\ LET files == ModelArtifactFiles(sm.model_type)
           key   == BlobKey("models", sm.exp, sm.num, files[sm.next])
       IN \/ /\ blobs' = blobs \cup {key}
             /\ sm' = IF sm.next = Len(files)
                      THEN [sm EXCEPT !.pc = "returned",
                                      !.written = @ \cup {key},
                                      !.uri = BaseUri("models", sm.exp, sm.num)]
                      ELSE [sm EXCEPT !.next = @ + 1,
                                      !.written = @ \cup {key}]
          \/ /\ sm' = SaveModelFailure(sm)
             /\ UNCHANGED blobs
    /\ UNCHANGED <<st, saves, lateVars, splitVars, svcVars, regVars, preVars, dispVars>>

\* ---- save_trial_artifacts

SaveTrialFailure_Raises(call) ==
    [call EXCEPT !.pc = "raised", !.err = ExternalServiceError,
                 !.failed = TRUE]

\* except Exception: log, return ""
SaveTrialFailure(call) ==
    [call EXCEPT !.pc = "returned", !.uri = NoUri, !.failed = TRUE]

SaveTrialBegin ==
    /\ CallStopped(st)
    /\ saves < MaxSaves
    /\ \E e \in ExperimentIds, n \in TrialNumbers, t \in SavedModelTypes :
           st' = BeginSave(e, n, t)
    /\ saves' = saves + 1
    /\ UNCHANGED <<blobs, sm, lateVars, splitVars, svcVars, regVars, preVars, dispVars>>

\* trainer.save_model(model, tmp.name)
SaveTrialSerialize ==
    /\ st.pc = "serialize"
    /\ \/ st' = [st EXCEPT !.pc = "upload"]
       \/ st' = SaveTrialFailure(st)
    /\ UNCHANGED <<blobs, sm, saves, lateVars, splitVars, svcVars, regVars, preVars,
                   dispVars>>

\* the next gcs_client.upload_file / upload_json; after the last one, return
SaveTrialUpload ==
    /\ st.pc = "upload"
    /\ LET files == TrialArtifactFiles(st.model_type)
           key   == BlobKey("experiments", st.exp, st.num, files[st.next])
       IN \/ /\ blobs' = blobs \cup {key}
             /\ st' = IF st.next = Len(files)
                      THEN [st EXCEPT !.pc = "returned",
                                      !.written = @ \cup {key},
                                      !.uri = BaseUri("experiments", st.exp,
                                                      st.num)]
                      ELSE [st EXCEPT !.next = @ + 1,
                                      !.written = @ \cup {key}]
          \/ /\ st' = SaveTrialFailure(st)
             /\ UNCHANGED blobs
    /\ UNCHANGED <<sm, saves, lateVars, splitVars, svcVars, regVars, preVars, dispVars>>

ArtNext ==
    \/ SaveModelBegin
    \/ SaveModelSerialize
    \/ SaveModelUpload
    \/ SaveTrialBegin
    \/ SaveTrialSerialize
    \/ SaveTrialUpload

-----------------------------------------------------------------------------
(* The model registry.  The table (db/models/model_registry.py) and the     *)
(* promote request (schemas/model_registry.py) are modelled from the code;  *)
(* the operations that insert a row and that change its stage follow the    *)
(* documented lifecycle: a new version is max(existing) + 1 of its          *)
(* experiment, and promotion moves a row along staging -> production,       *)
(* staging -> archived, production -> archived.  Reading the maximum and    *)
(* inserting are separate steps, so two registrations can overlap.          *)

MaxRegOps == 3

RegExperiments == {1, 2}
RegCallers == {"c1", "c2", "promote"}
RegCreators == {"c1", "c2"}

\* class ModelStage
ModelStage == {"staging", "production", "archived"}

DefaultStage_Production == "production"

\* stage = mapped_column(..., default=ModelStage.STAGING)
DefaultStage == "staging"

\* ModelPromoteRequest.target_stage: ModelStage
PromoteTargets == ModelStage

UniqueIndexAllows_Any(rows, exp, version) == TRUE

\* Index("ix_model_registry_experiment_id_version", ..., unique=True)
UniqueIndexAllows(rows, exp, version) ==
    \A i \in 1..Len(rows) : ~(rows[i].exp = exp /\ rows[i].version = version)

RegistryRow(exp, version) ==
    [exp |-> exp, version |-> version, stage |-> DefaultStage]

\* max(existing version for this experiment) + 1
NextVersion(rows, exp) ==
    LET vs == {rows[i].version : i \in {j \in 1..Len(rows) : rows[j].exp = exp}}
    IN IF vs = {} THEN 1
       ELSE (CHOOSE v \in vs : \A w \in vs : w <= v) + 1

StageTransitions ==
    {<<"staging", "production">>, <<"staging", "archived">>,
     <<"production", "archived">>}

IdleRegCall ==
    [pc |-> "idle", exp |-> 0, version |-> 0, row |-> 0, target |-> ""]

RegIdle ==
    /\ reg = <<>>
    /\ rc = [c \in RegCallers |-> IdleRegCall]
    /\ regOps = 0

RegCallStopped(c) == rc[c].pc \in {"idle", "created", "conflict", "promoted",
                                   "rejected"}

\* a registration starts: read the experiment's highest version
RegisterRead(c) ==
    /\ RegCallStopped(c)
    /\ regOps < MaxRegOps
    /\ \E e \in RegExperiments :
           rc' = [rc EXCEPT ![c] = [IdleRegCall EXCEPT
                                       !.pc = "insert", !.exp = e,
                                       !.version = NextVersion(reg, e)]]
    /\ regOps' = regOps + 1
    /\ UNCHANGED <<reg, lateVars, splitVars, svcVars, artVars, preVars, dispVars>>

\* the registration inserts its row; the unique index rejects a duplicate
RegisterInsert(c) ==
    /\ rc[c].pc = "insert"
    /\ IF UniqueIndexAllows(reg, rc[c].exp, rc[c].version)
       THEN /\ reg' = Append(reg, RegistryRow(rc[c].exp, rc[c].version))
            /\ rc' = [rc EXCEPT ![c].pc = "created", ![c].row = Len(reg) + 1]
       ELSE /\ rc' = [rc EXCEPT ![c].pc = "conflict"]
            /\ UNCHANGED reg
    /\ UNCHANGED <<regOps, lateVars, splitVars, svcVars, artVars, preVars, dispVars>>

\* a promote request for a row, naming any target stage
Promote ==
    /\ regOps < MaxRegOps
    /\ \E i \in 1..Len(reg), target \in PromoteTargets :
           IF <<reg[i].stage, target>> \in StageTransitions
           THEN /\ reg' = [reg EXCEPT ![i].stage = target]
                /\ rc' = [rc EXCEPT !["promote"] =
                             [IdleRegCall EXCEPT !.pc = "promoted", !.row = i,
                                                 !.target = target]]
           ELSE /\ rc' = [rc EXCEPT !["promote"] =
                             [IdleRegCall EXCEPT !.pc = "rejected", !.row = i,
                                                 !.target = target]]
                /\ UNCHANGED reg
    /\ regOps' = regOps + 1
    /\ UNCHANGED <<lateVars, splitVars, svcVars, artVars, preVars, dispVars>>

RegNext ==
    \/ \E c \in RegCreators : RegisterRead(c)
    \/ \E c \in RegCreators : RegisterInsert(c)
    \/ Promote

-----------------------------------------------------------------------------
(* preprocess.py: preprocess_features (fit) and apply_preprocessing (apply). *)
(* A frame is a sequence of rows over the columns c (Utf8), x (Int64) and   *)
(* y (Int64).  A cell is Null or the pair <<n, d>> for the number n/d; the  *)
(* strings of column c are numbered in their sorted order ("a" is 1, "b"    *)
(* is 2, ...), so that sorted() is the order of the numbers.                *)

MaxFitRows == 2

FrameColumns == {"c", "x", "y"}

Dtype(col) == IF col = "c" THEN "Utf8" ELSE "Int64"

NumericDtypes == {"Float64", "Float32", "Int64", "Int32"}
CategoricalDtypes == {"Utf8", "Categorical"}

Num(v) == <<v, 1>>

\* df.select(cols)
Select(frame, cols) ==
    [i \in 1..Len(frame) |-> [col \in Range(cols) |-> frame[i][col]]]

Column(frame, col) == [i \in 1..Len(frame) |-> frame[i][col]]

Take(s, idx) == [k \in 1..Len(idx) |-> s[idx[k]]]

AllIndices(s) == [i \in 1..Len(s) |-> i]

\* pl.any_horizontal(pl.all().is_null())
AnyNull(row) == \E col \in DOMAIN row : row[col] = Null

NotNullIndices_AllNull(X) ==
    SelectSeq(AllIndices(X), LAMBDA i : \E col \in DOMAIN X[i] : X[i][col] # Null)

\* the rows X.filter(~null_mask) keeps
NotNullIndices(X) == SelectSeq(AllIndices(X), LAMBDA i : ~AnyNull(X[i]))

RECURSIVE SumCells(_)
SumCells(cells) ==
    IF cells = <<>> THEN 0
    ELSE (IF Head(cells) = Null THEN 0 ELSE Head(cells)[1]) + SumCells(Tail(cells))

CountCells(cells) == Cardinality({i \in DOMAIN cells : cells[i] # Null})

\* Series.mean(): nulls are skipped; None when there is no value
Mean(cells) ==
    IF CountCells(cells) = 0 THEN Null
    ELSE <<SumCells(cells), CountCells(cells)>>

\* for col in X.columns: numeric dtype -> fill_null(X[col].mean())
FillMean(X) ==
    [i \in DOMAIN X |->
        [col \in DOMAIN X[i] |->
            IF Dtype(col) \in NumericDtypes /\ X[i][col] = Null
            THEN Mean(Column(X, col))
            ELSE X[i][col]]]

CategoryMap_Reversed(cells) ==
    LET vals == {cells[i][1] : i \in {j \in DOMAIN cells : cells[j] # Null}}
    IN [v \in vals |-> Cardinality({w \in vals : w > v})]

\* {val: idx for idx, val in enumerate(sorted(unique().drop_nulls()))}
CategoryMap(cells) ==
    LET vals == {cells[i][1] : i \in {j \in DOMAIN cells : cells[j] # Null}}
    IN [v \in vals |-> Cardinality({w \in vals : w < v})]

\* default=-1 of the map_dict call in preprocess_features
FitDefault == -1

\* default=-1 of the map_dict call in apply_preprocessing
ApplyDefault == -1

map_dict_NullStays(cell, category_map, default) ==
    IF cell = Null THEN Null
    ELSE IF cell[1] \in DOMAIN category_map THEN Num(category_map[cell[1]])
    ELSE Num(default)

\* pl.col(col).map_dict(category_map, default=default) on one cell: a value
\* that is no key of the map, null included, becomes the default
map_dict(cell, category_map, default) ==
    IF cell # Null /\ cell[1] \in DOMAIN category_map
    THEN Num(category_map[cell[1]])
    ELSE Num(default)

EncodeColumns(X, category_maps, default) ==
    [i \in DOMAIN X |->
        [col \in DOMAIN X[i] |->
            IF col \in DOMAIN category_maps
            THEN map_dict(X[i][col], category_maps[col], default)
            ELSE X[i][col]]]

\* the artifacts dict: its keys and category_maps (empty when absent)
Artifacts(category_maps) ==
    [keys |-> IF DOMAIN category_maps = {} THEN {} ELSE {"category_maps"},
     category_maps |-> category_maps]

NoArtifacts == Artifacts(<<>>)

NoFit ==
    [done |-> FALSE, ok |-> FALSE, err |-> "", text |-> "", cols |-> {},
     X |-> <<>>, y |-> <<>>, artifacts |-> NoArtifacts, kept |-> <<>>]

\* return X, y, artifacts (kept: the indices of the rows of df that X has)
FitOk(X, y, artifacts, kept) ==
    [NoFit EXCEPT !.done = TRUE, !.ok = TRUE, !.X = X, !.y = y,
                  !.artifacts = artifacts, !.kept = kept]

\* raise DataProcessingError(f"Preprocessing failed: {text}: {cols}")
FitError(text, cols) ==
    [NoFit EXCEPT !.done = TRUE, !.err = DataProcessingError, !.text = text,
                  !.cols = cols]

MissingCols_AllRequested(feature_columns, target_column, columns) ==
    IF (Range(feature_columns) \cup {target_column}) \subseteq columns
    THEN {}
    ELSE Range(feature_columns) \cup {target_column}

\* set(feature_columns + [target_column]) - set(df.columns)
MissingCols(feature_columns, target_column, columns) ==
    (Range(feature_columns) \cup {target_column}) \ columns

\* preprocess_features(df, feature_columns, target_column, config): the set
\* of outcomes.  With fill_mean, a numeric column without any value has mean
\* None; fill_null(None) then either raises (re-raised as
\* DataProcessingError) or leaves the column as it is, depending on the
\* polars release, so both outcomes are kept.
preprocess_features(frame, feature_columns, target_column, missing_entry) ==
    LET missing_cols == MissingCols(feature_columns, target_column, FrameColumns)
    IN IF missing_cols # {}
       THEN {FitError("Missing columns", missing_cols)}
       ELSE
         LET X0 == Select(frame, feature_columns)
             y0 == Column(frame, target_column)
             missing_strategy == Get(missing_entry, "drop")
             kept == IF missing_strategy = "drop" THEN NotNullIndices(X0)
                     ELSE AllIndices(X0)
             X1 == Take(X0, kept)
             y1 == Take(y0, kept)
             X2 == IF missing_strategy = "fill_mean" THEN FillMean(X1) ELSE X1
             no_mean == /\ missing_strategy = "fill_mean"
                        /\ \E col \in Range(feature_columns) :
                               /\ Dtype(col) \in NumericDtypes
                               /\ Mean(Column(X1, col)) = Null
             categorical_cols ==
                 {col \in Range(feature_columns) : Dtype(col) \in CategoricalDtypes}
             category_maps ==
                 [col \in categorical_cols |-> CategoryMap(Column(X2, col))]
             X3 == EncodeColumns(X2, category_maps, FitDefault)
             returned == FitOk(X3, y1, Artifacts(category_maps), kept)
         IN IF no_mean THEN {returned, FitError("fill_null", {})}
            ELSE {returned}

NoApply == [done |-> FALSE, ok |-> FALSE, err |-> "", X |-> <<>>]

\* apply_preprocessing(df, feature_columns, artifacts).  A Utf8 column
\* without a stored map is cast to Float64; the strings of column c are not
\* numbers, the cast raises, the exception is swallowed and the column stays.
apply_preprocessing(frame, feature_columns, artifacts) ==
    IF ~(Range(feature_columns) \subseteq FrameColumns)
    THEN [NoApply EXCEPT !.done = TRUE, !.err = DataProcessingError]
    ELSE
      LET X0 == Select(frame, feature_columns)
          stored == artifacts.category_maps
          category_maps ==
              [col \in DOMAIN stored \cap Range(feature_columns) |-> stored[col]]
      IN [NoApply EXCEPT !.done = TRUE, !.ok = TRUE,
                         !.X = EncodeColumns(X0, category_maps, ApplyDefault)]

\* ---- inputs

FeatureLists == {<<"c", "x">>, <<"c">>, <<"x">>, <<"x", "z">>, <<"c", "x", "z">>}
TargetColumns == {"y", "w"}
MissingStrategies == {Absent, <<"drop">>, <<"fill_mean">>, <<"keep">>}

FitRows ==
    {[c |-> cc, x |-> xc, y |-> Num(7)] :
        cc \in {Null, Num(1), Num(2)}, xc \in {Null, Num(1), Num(4)}}

\* the target differs from row to row: row i has y = 10 * i
FitFrames ==
    UNION {{[i \in 1..n |-> [rows[i] EXCEPT !.y = Num(10 * i)]] :
               rows \in [1..n -> FitRows]} : n \in 0..MaxFitRows}

\* frames seen at prediction time: known, unknown and null values
ApplyFrames ==
    {<<[c |-> cc, x |-> xc, y |-> Num(7)]>> :
        cc \in {Null, Num(1), Num(3)}, xc \in {Null, Num(2)}}

PreInput(frame, feature_columns, target_column, missing_entry) ==
    [df |-> frame, feature_columns |-> feature_columns,
     target_column |-> target_column, missing_strategy |-> missing_entry]

NoPreInput == PreInput(<<>>, <<"x">>, "y", Absent)

PreIdle ==
    /\ pin = NoPreInput
    /\ fit = NoFit
    /\ ain = <<>>
    /\ app = NoApply

PreInit ==
    /\ pin \in {PreInput(f, fc, t, ms) :
                   f \in FitFrames, fc \in FeatureLists, t \in TargetColumns,
                   ms \in MissingStrategies}
    /\ fit = NoFit
    /\ ain = <<>>
    /\ app = NoApply

\* the frame fit worked on, without the rows fit dropped
FittingFrame == Take(pin.df, fit.kept)

Fit ==
    /\ ~fit.done
    /\ fit' \in preprocess_features(pin.df, pin.feature_columns,
                                    pin.target_column, pin.missing_strategy)
    /\ UNCHANGED <<pin, ain, app, lateVars, splitVars, svcVars, artVars, regVars,
                   dispVars>>

Apply ==
    /\ fit.done
    /\ fit.ok
    /\ ~app.done
    /\ ain' \in {FittingFrame} \cup ApplyFrames
    /\ app' = apply_preprocessing(ain', pin.feature_columns, fit.artifacts)
    /\ UNCHANGED <<pin, fit, lateVars, splitVars, svcVars, artVars, regVars, dispVars>>

PreNext == Fit \/ Apply

-----------------------------------------------------------------------------
(* dispatcher.py: get_trainer and get_default_metric *)

ValidationError == "validation_error"

\* class ModelType, class TaskType
ModelType == {"catboost", "xgboost", "lightgbm"}
TaskType == {"classification", "regression"}

TrainerClass_AlwaysCatBoost(model_type) == "CatBoostTrainer"

\* match model_type: the class instantiated by each case
TrainerClass(model_type) ==
    CASE model_type = "catboost" -> "CatBoostTrainer"
      [] model_type = "xgboost"  -> "XGBoostTrainer"
      [] model_type = "lightgbm" -> "LightGBMTrainer"

NoCall == [done |-> FALSE, ok |-> FALSE, err |-> "", value |-> ""]
Returns(value) == [NoCall EXCEPT !.done = TRUE, !.ok = TRUE, !.value = value]
Raises(kind) == [NoCall EXCEPT !.done = TRUE, !.err = kind]

get_trainer(model_type, task_type) ==
    IF model_type \notin ModelType THEN Raises(ValidationError)
    ELSE IF task_type \notin TaskType THEN Raises(ValidationError)
    ELSE Returns(TrainerClass(model_type))

get_default_metric(task_type) ==
    CASE task_type = "classification" -> Returns("auc")
      [] task_type = "regression"     -> Returns("rmse")
      [] OTHER                        -> Raises(ValidationError)

\* ---- inputs

RequestedModelTypes ==
    {"catboost", "xgboost", "lightgbm", "sklearn", "CatBoost", ""}
RequestedTaskTypes ==
    {"classification", "regression", "ranking", "Regression", ""}

Dispatch(model_type, task_type) ==
    [model_type |-> model_type, task_type |-> task_type,
     trainer |-> NoCall, metric |-> NoCall]

DispIdle == disp = Dispatch("", "")

DispInit ==
    disp \in {Dispatch(mt, tt) : mt \in RequestedModelTypes,
                                 tt \in RequestedTaskTypes}

GetTrainer ==
    /\ ~disp.trainer.done
    /\ disp' = [disp EXCEPT !.trainer = get_trainer(disp.model_type,
                                                    disp.task_type)]
    /\ UNCHANGED <<lateVars, splitVars, svcVars, artVars, regVars, preVars>>

GetDefaultMetric ==
    /\ ~disp.metric.done
    /\ disp' = [disp EXCEPT !.metric = get_default_metric(disp.task_type)]
    /\ UNCHANGED <<lateVars, splitVars, svcVars, artVars, regVars, preVars>>

DispNext == GetTrainer \/ GetDefaultMetric

-----------------------------------------------------------------------------
(* One request through the application of main.py.  The middleware stack,  *)
(* outermost first: the server-error layer, which runs the handler         *)
(* registered for Exception; the added middleware, RequestIDMiddleware     *)
(* innermost; the exception layer, which runs the handlers registered for  *)
(* MLAPIException, RequestValidationError and HTTPException; the route.    *)

MaxRequests == 2

\* values of the X-Request-ID request header, when sent
SentRequestIds == {"abc", ""}

\* str(uuid.uuid4())
GeneratedIds == {"uuid-1", "uuid-2"}

\* what a route does: it returns, or raises one of these
RaisedKinds == {"MLAPIException", "RequestValidationError", "HTTPException",
                "Exception"}

\* exc.code of the MLAPIException raised
RaisedCodes == {"resource_not_found", "external_service_error"}

\* create_error_response: the keys of content["error"] and their values
create_error_response(request_id, code, message) ==
    [keys |-> {"code", "message", "details", "request_id"},
     code |-> code, message |-> message, request_id |-> request_id]

NoBody == [keys |-> {}, code |-> "", message |-> "", request_id |-> ""]

\* getattr(request.state, "request_id", "unknown")
StateRequestId(state) == Get(state, "unknown")

\* a JSONResponse built by a handler: no X-Request-ID header yet
ErrorResponse(body) == [error |-> TRUE, body |-> body, x_request_id |-> Absent]

mlapi_exception_handler(state, code) ==
    ErrorResponse(create_error_response(StateRequestId(state), code, "exc.message"))

validation_exception_handler(state) ==
    ErrorResponse(create_error_response(StateRequestId(state), "validation_error",
                                        "Request validation failed"))

http_exception_handler(state) ==
    ErrorResponse(create_error_response(StateRequestId(state), "http_error",
                                        "exc.detail"))

general_exception_handler(state) ==
    ErrorResponse(create_error_response(StateRequestId(state), "internal_error",
                                        "An unexpected error occurred"))

NoResponse == [error |-> FALSE, body |-> NoBody, x_request_id |-> Absent]

IdleRequest ==
    [pc |-> "idle", header |-> Absent, generated |-> "", request_id |-> "",
     state |-> Absent, exc |-> "", code |-> "", response |-> NoResponse,
     n |-> 0]

HttpIdle == http = IdleRequest

\* a request arrives, with or without the X-Request-ID header
Receive ==
    /\ http.pc \in {"idle", "sent"}
    /\ http.n < MaxRequests
    /\ \E h \in {Absent} \cup {<<v>> : v \in SentRequestIds} :
           http' = [IdleRequest EXCEPT !.pc = "dispatch", !.header = h,
                                       !.n = http.n + 1]
    /\ UNCHANGED <<baseVars, healthVars, storeVars, trainVars>>

\* RequestIDMiddleware.dispatch up to call_next
DispatchEnter ==
    /\ http.pc = "dispatch"
    /\ \E u \in GeneratedIds :
           LET request_id == Get(http.header, u)
           IN http' = [http EXCEPT !.pc = "route", !.generated = u,
                                   !.request_id = request_id,
                                   !.state = <<request_id>>]
    /\ UNCHANGED <<baseVars, healthVars, storeVars, trainVars>>

\* the route returns a response
RouteReturns ==
    /\ http.pc = "route"
    /\ http' = [http EXCEPT !.pc = "after_next", !.response = NoResponse]
    /\ UNCHANGED <<baseVars, healthVars, storeVars, trainVars>>

\* the route (or its validation) raises
RouteRaises ==
    /\ http.pc = "route"
    /\ \E k \in RaisedKinds, c \in RaisedCodes :
           http' = [http EXCEPT !.pc = "raised", !.exc = k,
                                !.code = IF k = "MLAPIException" THEN c ELSE ""]
    /\ UNCHANGED <<baseVars, healthVars, storeVars, trainVars>>

\* the exception layer: a registered handler turns the exception into a
\* response, which call_next returns to the middleware
ExceptionLayerHandles ==
    /\ http.pc = "raised"
    /\ http.exc # "Exception"
    /\ http' = [http EXCEPT
                  !.pc = "after_next",
                  !.response =
                      IF http.exc = "MLAPIException"
                      THEN mlapi_exception_handler(http.state, http.code)
                      ELSE IF http.exc = "RequestValidationError"
                      THEN validation_exception_handler(http.state)
                      ELSE http_exception_handler(http.state)]
    /\ UNCHANGED <<baseVars, healthVars, storeVars, trainVars>>

\* RequestIDMiddleware.dispatch after call_next:
\* response.headers["X-Request-ID"] = request_id
DispatchReturn ==
    /\ http.pc = "after_next"
    /\ http' = [http EXCEPT !.pc = "sent",
                            !.response.x_request_id = <<http.request_id>>]
    /\ UNCHANGED <<baseVars, healthVars, storeVars, trainVars>>

\* any other exception leaves call_next and dispatch; the server-error layer
\* runs general_exception_handler and sends its response
ServerErrorLayerHandles ==
    /\ http.pc = "raised"
    /\ http.exc = "Exception"
    /\ http' = [http EXCEPT !.pc = "sent",
                            !.response = general_exception_handler(http.state)]
    /\ UNCHANGED <<baseVars, healthVars, storeVars, trainVars>>

HttpNext ==
    \/ Receive
    \/ DispatchEnter
    \/ RouteReturns
    \/ RouteRaises
    \/ ExceptionLayerHandles
    \/ DispatchReturn
    \/ ServerErrorLayerHandles

-----------------------------------------------------------------------------
(* The health routes (routes/health.py) and the GCS client (clients.py).   *)
(* world says what is reachable; gclient is the singleton of                *)
(* get_gcs_client with its cached _bucket.                                  *)

MaxHealthCalls == 4

\* settings.app_name, settings.app_version
app_name == "ml-api"
app_version == "0.1.0"

NoBucket == "None"
BucketRef == "Bucket"

NoChecks == [database |-> FALSE, gcs |-> FALSE]

NoHealthResult ==
    [op |-> "none", status_code |-> 0, status |-> "", service |-> "",
     version |-> "", checks |-> NoChecks, raised |-> "", returned |-> FALSE]

HealthIdle ==
    /\ world = [database |-> TRUE, bucket_exists |-> TRUE]
    /\ gclient = [_bucket |-> NoBucket]
    /\ hres = NoHealthResult
    /\ hcalls = 0

HealthInit ==
    /\ world \in [database : BOOLEAN, bucket_exists : BOOLEAN]
    /\ gclient = [_bucket |-> NoBucket]
    /\ hres = NoHealthResult
    /\ hcalls = 0

\* healthz(): a constant answer; nothing of the system is looked at
healthz ==
    [NoHealthResult EXCEPT !.op = "healthz", !.status_code = 200,
                           !.status = "ok", !.service = app_name,
                           !.version = app_version]

\* the bucket property: _bucket is assigned before exists() is asked, and is
\* not reset when the bucket is missing
bucket(_bucket, bucket_exists) ==
    IF _bucket = NoBucket
    THEN [_bucket |-> BucketRef,
          raised |-> IF bucket_exists THEN "" ELSE ExternalServiceError]
    ELSE [_bucket |-> _bucket, raised |-> ""]

\* verify_connectivity(): True unless the bucket property raises
verify_connectivity(_bucket, bucket_exists) ==
    LET b == bucket(_bucket, bucket_exists)
    IN [_bucket |-> b._bucket, returned |-> (b.raised = "")]

\* readyz(db): the two checks and the status
readyz(database, gcs_ok) ==
    [NoHealthResult EXCEPT
        !.op = "readyz", !.status_code = 200,
        !.checks = [database |-> database, gcs |-> gcs_ok],
        !.status = IF database /\ gcs_ok THEN "ready" ELSE "not_ready"]

\* the database becomes reachable or unreachable
DatabaseChanges ==
    /\ world' = [world EXCEPT !.database = ~world.database]
    /\ UNCHANGED <<gclient, hres, hcalls, baseVars, httpVars, storeVars,
                   trainVars>>

Healthz_ChecksDatabase ==
    /\ hcalls < MaxHealthCalls
    /\ hres' = [healthz EXCEPT !.status = IF world.database THEN "ok"
                                          ELSE "not_ready"]
    /\ hcalls' = hcalls + 1
    /\ UNCHANGED <<world, gclient, baseVars, httpVars, storeVars, trainVars>>

\* GET /healthz
Healthz ==
    /\ hcalls < MaxHealthCalls
    /\ hres' = healthz
    /\ hcalls' = hcalls + 1
    /\ UNCHANGED <<world, gclient, baseVars, httpVars, storeVars, trainVars>>

\* GET /readyz
Readyz ==
    /\ hcalls < MaxHealthCalls
    /\ LET v == verify_connectivity(gclient._bucket, world.bucket_exists)
       IN /\ hres' = readyz(world.database, v.returned)
          /\ gclient' = [gclient EXCEPT !._bucket = v._bucket]
    /\ hcalls' = hcalls + 1
    /\ UNCHANGED <<world, baseVars, httpVars, storeVars, trainVars>>

\* any use of get_gcs_client().bucket
BucketAccess ==
    /\ hcalls < MaxHealthCalls
    /\ LET b == bucket(gclient._bucket, world.bucket_exists)
       IN /\ hres' = [NoHealthResult EXCEPT !.op = "bucket",
                                            !.raised = b.raised]
          /\ gclient' = [gclient EXCEPT !._bucket = b._bucket]
    /\ hcalls' = hcalls + 1
    /\ UNCHANGED <<world, baseVars, httpVars, storeVars, trainVars>>

\* get_gcs_client().verify_connectivity()
VerifyConnectivity ==
    /\ hcalls < MaxHealthCalls
    /\ LET v == verify_connectivity(gclient._bucket, world.bucket_exists)
       IN /\ hres' = [NoHealthResult EXCEPT !.op = "verify_connectivity",
                                            !.returned = v.returned]
          /\ gclient' = [gclient EXCEPT !._bucket = v._bucket]
    /\ hcalls' = hcalls + 1
    /\ UNCHANGED <<world, baseVars, httpVars, storeVars, trainVars>>

HealthNext ==
    \/ DatabaseChanges
    \/ Healthz
    \/ Readyz
    \/ BucketAccess
    \/ VerifyConnectivity

-----------------------------------------------------------------------------
(* Object keys as paths.  A path is the sequence of its pieces: the fixed   *)
(* texts, an identifier (a UUID, all of one length), and a number written   *)
(* digit by digit as str() writes it; one path is a prefix of another, as   *)
(* strings, exactly when its pieces are a prefix of the other's pieces.     *)
(* Each blob remembers the call that wrote it and the entity it was        *)
(* written for.                                                             *)

MaxStoreOps == 2

StoreExperimentIds == {"e1", "e2"}
StoreSplitIds == {"s1", "s2"}
StoreVersions == {1, 2, 10}
StoreTrials == {0, 10}

DigitChars == <<"0", "1", "2", "3", "4", "5", "6", "7", "8", "9">>

\* str(n) for n >= 0, digit by digit
RECURSIVE Digits(_)
Digits(n) ==
    IF n < 10 THEN <<DigitChars[n + 1]>>
    ELSE Digits(n \div 10) \o <<DigitChars[(n % 10) + 1]>>

\* str.startswith; the listing by prefix of the object store
startswith(path, prefix) ==
    /\ Len(prefix) <= Len(path)
    /\ SubSeq(path, 1, Len(prefix)) = prefix

\* f"splits/{split_id}"
SplitBasePath(split_id) == <<"splits/", split_id>>

ModelBasePath_NoVersion(experiment_id, version) ==
    <<"models/", experiment_id, "/v">>

\* f"models/{experiment_id}/v{version}"
ModelBasePath(experiment_id, version) ==
    <<"models/", experiment_id, "/v">> \o Digits(version)

\* f"experiments/{experiment_id}/trials/{trial_number}"
TrialBasePath(experiment_id, trial_number) ==
    <<"experiments/", experiment_id, "/trials/">> \o Digits(trial_number)

\* f"{base_path}/{file}"
PathOf(base_path, file) == base_path \o <<"/", file>>

\* f"gs://{gcs_client.bucket_name}/{base_path}"
UriOf(base_path) == <<"gs://bucket/">> \o base_path

\* artifact_uri.replace(f"gs://{gcs_client.bucket_name}/", "")
UriToPath(artifact_uri) == SelectSeq(artifact_uri, LAMBDA piece : piece # "gs://bucket/")

SplitFiles == <<"train.parquet", "val.parquet", "test.parquet">>

LoadedFiles_All(model_type) == ModelArtifactFiles(model_type)

\* the files load_model_artifacts downloads, in order
LoadedFiles(model_type) ==
    <<ModelFile(model_type), "preprocess.json", "postprocess.json",
      "signature.json">>

SplitEntity(split_id) == <<"split", split_id, 0>>
ModelEntity(experiment_id, version) == <<"model", experiment_id, version>>
TrialEntity(experiment_id, trial_number) == <<"trial", experiment_id, trial_number>>

StoreEntities ==
    {SplitEntity(s) : s \in StoreSplitIds}
      \cup {ModelEntity(e, v) : e \in StoreExperimentIds, v \in StoreVersions}
      \cup {TrialEntity(e, t) : e \in StoreExperimentIds, t \in StoreTrials}

\* the base path of an entity
BasePathOf(entity) ==
    CASE entity[1] = "split" -> SplitBasePath(entity[2])
      [] entity[1] = "model" -> ModelBasePath(entity[2], entity[3])
      [] OTHER               -> TrialBasePath(entity[2], entity[3])

\* the files an operation uploads for an entity, in order
FilesOf(entity, model_type) ==
    CASE entity[1] = "split" -> SplitFiles
      [] entity[1] = "model" -> ModelArtifactFiles(model_type)
      [] OTHER               -> TrialArtifactFiles(model_type)

Blob(call, entity, file, model_type) ==
    [call |-> call, entity |-> entity, file |-> file, model_type |-> model_type]

\* upload: the blob is created or overwritten
Put(s, key, content) ==
    [k \in DOMAIN s \cup {key} |-> IF k = key THEN content ELSE s[k]]

RECURSIVE PutAll(_, _, _, _, _, _)
PutAll(s, call, entity, model_type, files, n) ==
    IF n = 0 THEN s
    ELSE Put(PutAll(s, call, entity, model_type, files, n - 1),
             PathOf(BasePathOf(entity), files[n]),
             Blob(call, entity, files[n], model_type))

\* gcs_client.list_blobs(prefix)
list_blobs(s, prefix) == {k \in DOMAIN s : startswith(k, prefix)}

\* gcs_client.delete of each listed blob
DeleteAll(s, keys) == [k \in DOMAIN s \ keys |-> s[k]]

NoStoreOp ==
    [kind |-> "none", entity |-> <<>>, model_type |-> "", uri |-> <<>>,
     ok |-> FALSE, err |-> "", written |-> {}, read |-> {}, deleted |-> {},
     loaded |-> <<>>]

StoreIdle ==
    /\ store = <<>>
    /\ sop = NoStoreOp
    /\ sops = 0

\* the uploads of one saving call for an entity; the call either makes all
\* its uploads and returns the URI, or an upload fails after the first
\* `done` of them (the trial save then returns "" instead of raising)
Save(kind, entity, model_type, done) ==
    LET files == FilesOf(entity, model_type)
        all == done = Len(files)
    IN /\ store' = PutAll(store, sops + 1, entity, model_type, files, done)
       /\ sop' = [NoStoreOp EXCEPT
                    !.kind = kind, !.entity = entity, !.model_type = model_type,
                    !.ok = all,
                    !.err = IF all \/ kind = "save_trial" THEN ""
                            ELSE ExternalServiceError,
                    !.uri = IF all THEN UriOf(BasePathOf(entity)) ELSE <<>>,
                    !.written = {PathOf(BasePathOf(entity), files[i]) :
                                    i \in 1..done}]
       /\ sops' = sops + 1

\* create_split: the three uploads of the partitions
StoreCreateSplit ==
    /\ sops < MaxStoreOps
    /\ \E s \in StoreSplitIds, done \in {1, 3} :
           Save("create_split", SplitEntity(s), "", done)
    /\ UNCHANGED <<baseVars, httpVars, healthVars, trainVars>>

\* save_model_artifacts
StoreSaveModel ==
    /\ sops < MaxStoreOps
    /\ \E e \in StoreExperimentIds, v \in StoreVersions,
          t \in SavedModelTypes, done \in {2, 5} :
           Save("save_model", ModelEntity(e, v), t, done)
    /\ UNCHANGED <<baseVars, httpVars, healthVars, trainVars>>

\* save_trial_artifacts
StoreSaveTrial ==
    /\ sops < MaxStoreOps
    /\ \E e \in StoreExperimentIds, n \in StoreTrials, done \in {1, 2} :
           Save("save_trial", TrialEntity(e, n), "xgboost", done)
    /\ UNCHANGED <<baseVars, httpVars, healthVars, trainVars>>

\* load_model_artifacts(artifact_uri, ..., model_type, ...): the downloads in
\* order; a missing blob makes the download raise
LoadModelArtifacts ==
    /\ sops < MaxStoreOps
    /\ \E e \in StoreExperimentIds, v \in StoreVersions, t \in SavedModelTypes :
           LET artifact_uri == UriOf(ModelBasePath(e, v))
               base_path == UriToPath(artifact_uri)
               files == LoadedFiles(t)
               keys == [i \in 1..Len(files) |-> PathOf(base_path, files[i])]
               missing == {i \in 1..Len(files) : keys[i] \notin DOMAIN store}
               last == IF missing = {} THEN Len(files)
                       ELSE CHOOSE i \in missing : \A j \in missing : i <= j
           IN sop' = [NoStoreOp EXCEPT
                        !.kind = "load", !.entity = ModelEntity(e, v),
                        !.model_type = t, !.uri = artifact_uri,
                        !.ok = (missing = {}),
                        !.err = IF missing = {} THEN "" ELSE ExternalServiceError,
                        !.read = {keys[i] : i \in 1..last},
                        !.loaded = IF missing = {}
                                   THEN [i \in 1..Len(files) |-> store[keys[i]]]
                                   ELSE <<>>]
    /\ sops' = sops + 1
    /\ UNCHANGED <<store, baseVars, httpVars, healthVars, trainVars>>

\* delete_model_artifacts(artifact_uri, gcs_client)
DeleteModelArtifacts ==
    /\ sops < MaxStoreOps
    /\ \E e \in StoreExperimentIds, v \in StoreVersions :
           LET artifact_uri == UriOf(ModelBasePath(e, v))
               base_path == UriToPath(artifact_uri)
               listed == list_blobs(store, base_path)
           IN /\ store' = DeleteAll(store, listed)
              /\ sop' = [NoStoreOp EXCEPT
                           !.kind = "delete", !.entity = ModelEntity(e, v),
                           !.uri = artifact_uri, !.ok = TRUE,
                           !.deleted = listed]
    /\ sops' = sops + 1
    /\ UNCHANGED <<baseVars, httpVars, healthVars, trainVars>>

StoreNext ==
    \/ StoreCreateSplit
    \/ StoreSaveModel
    \/ StoreSaveTrial
    \/ LoadModelArtifacts
    \/ DeleteModelArtifacts

-----------------------------------------------------------------------------
(* The trainers: CatBoostTrainer, XGBoostTrainer and LightGBMTrainer.      *)
(* train converts the frames, builds the classifier or the regressor,      *)
(* fits it and computes the metrics, all inside one try; what the          *)
(* libraries do is an input: where a call fails, and with which exception. *)

ModelTrainingError == "model_training_error"

Backends == {"CatBoost", "XGBoost", "LightGBM"}

\* the task_type strings handed to train
TrainTaskTypes == {"classification", "regression", "ranking"}

\* the calls of train that can fail, in order
TrainStages == <<"to_pandas", "construct", "fit", "predict", "metrics">>

\* exceptions the libraries raise (subclasses of Exception)
LibraryErrors == {"ValueError", "TypeError", "LibraryError"}

NoFault == [stage |-> "none", kind |-> ""]

Faults ==
    {NoFault} \cup [stage : Range(TrainStages), kind : LibraryErrors]

\* _compute_metrics: the keys of the dict it returns
MetricKeys(task_type) ==
    IF task_type = "classification" THEN {"auc", "accuracy"}
    ELSE {"rmse", "mae"}

\* the estimator train builds
Estimator(backend, task_type) ==
    IF task_type = "classification" THEN backend \o "Classifier"
    ELSE backend \o "Regressor"

NoTrain ==
    [done |-> FALSE, backend |-> "", returned |-> FALSE, model |-> "",
     metrics |-> {}, raised |-> "", message |-> ""]

train_ConversionOutsideTry(backend, task_type, fault) ==
    IF fault.stage = "none"
    THEN [NoTrain EXCEPT !.done = TRUE, !.backend = backend,
                         !.returned = TRUE,
                         !.model = Estimator(backend, task_type),
                         !.metrics = MetricKeys(task_type)]
    ELSE [NoTrain EXCEPT !.done = TRUE, !.backend = backend,
                         !.raised = IF fault.stage = "to_pandas" THEN fault.kind
                                    ELSE ModelTrainingError,
                         !.message = backend \o " training failed: " \o fault.kind]

\* train(params, X_train, y_train, X_val, y_val, task_type):
\* return model, metrics; except Exception as e: raise ModelTrainingError
train(backend, task_type, fault) ==
    IF fault.stage = "none"
    THEN [NoTrain EXCEPT !.done = TRUE, !.backend = backend,
                         !.returned = TRUE,
                         !.model = Estimator(backend, task_type),
                         !.metrics = MetricKeys(task_type)]
    ELSE [NoTrain EXCEPT !.done = TRUE, !.backend = backend,
                         !.raised = ModelTrainingError,
                         !.message = backend \o " training failed: " \o fault.kind]

TrainIdle == trn = [task_type |-> "classification", fault |-> NoFault, out |-> NoTrain]

TrainInit ==
    trn \in [task_type : TrainTaskTypes, fault : Faults, out : {NoTrain}]

CatBoostTrain ==
    /\ ~trn.out.done
    /\ trn' = [trn EXCEPT !.out = train("CatBoost", trn.task_type, trn.fault)]
    /\ UNCHANGED <<baseVars, httpVars, healthVars, storeVars>>

XGBoostTrain ==
    /\ ~trn.out.done
    /\ trn' = [trn EXCEPT !.out = train("XGBoost", trn.task_type, trn.fault)]
    /\ UNCHANGED <<baseVars, httpVars, healthVars, storeVars>>

LightGBMTrain ==
    /\ ~trn.out.done
    /\ trn' = [trn EXCEPT !.out = train("LightGBM", trn.task_type, trn.fault)]
    /\ UNCHANGED <<baseVars, httpVars, healthVars, storeVars>>

TrainNext ==
    \/ CatBoostTrain
    \/ XGBoostTrain
    \/ LightGBMTrain

-----------------------------------------------------------------------------
(* The sizes of the partitions, on row counts: the boundaries of            *)
(* _split_random, _split_time_based and _split_entity_based and the lengths *)
(* of the three slices, for frames too long to enumerate row by row.  For   *)
(* the entity-based split the count is the number of distinct entity        *)
(* values and the sizes are numbers of entities.                            *)

\* len(df), or the number of distinct entities
RowCounts == {0, 1, 3, 7, 8, 10, 1000, 2000}

SizeStrategies == {"random", "time_based", "entity_based"}

SizeRatioTriples ==
    { <<Absent, Absent, Absent>>,
      << <<500>>, <<250>>, <<250>> >>,
      << <<340>>, <<340>>, <<320>> >>,
      << <<333>>, <<333>>, <<334>> >>,
      << <<500>>, <<501>>, <<0>> >>,
      << <<1000>>, <<0>>, <<0>> >>,
      << <<0>>, <<0>>, <<1000>> >>,
      << <<500>>, <<250>>, <<100>> >> }

\* len(s[start:stop]) for a sequence of n elements
SliceLen(start, stop, n) == Max(SliceIndex(stop, n) - SliceIndex(start, n), 0)

Sizes(n_train, n_val, n_test) ==
    [ok |-> TRUE, err |-> "", train |-> n_train, val |-> n_val, test |-> n_test]

SizeFailure(err) == [ok |-> FALSE, err |-> err, train |-> 0, val |-> 0, test |-> 0]

NoSizes == SizeFailure("")

PartitionSizes_CumulativeRatio(n, train_ratio, val_ratio) ==
    LET train_end == IntOfProduct(n, train_ratio)
        val_end   == IntOfProduct(n, train_ratio + val_ratio)
    IN  Sizes(SliceLen(0, train_end, n), SliceLen(train_end, val_end, n),
              SliceLen(val_end, n, n))

\* train_end = int(n * train_ratio); val_end = train_end + int(n * val_ratio);
\* the lengths of [:train_end], [train_end:val_end] and [val_end:]
PartitionSizes(n, train_ratio, val_ratio) ==
    LET train_end == IntOfProduct(n, train_ratio)
        val_end   == train_end + IntOfProduct(n, val_ratio)
    IN  Sizes(SliceLen(0, train_end, n), SliceLen(train_end, val_end, n),
              SliceLen(val_end, n, n))

SizeIdle ==
    sz = [n |-> 0, strategy |-> "random", params |-> DefaultParams,
          done |-> FALSE, out |-> NoSizes]

SizeInit ==
    sz \in [n : RowCounts, strategy : SizeStrategies,
            params : {ParamsOf(r, SeedAbsent, "present") : r \in SizeRatioTriples},
            done : {FALSE}, out : {NoSizes}]

\* _split_random: the ratio sum is validated first
SplitRandomSizes ==
    /\ ~sz.done
    /\ sz.strategy = "random"
    /\ sz' = [sz EXCEPT
                !.done = TRUE,
                !.out = IF RatioSumOutOfTolerance(sz.params)
                        THEN SizeFailure(DataProcessingError)
                        ELSE PartitionSizes(sz.n,
                                 Get(sz.params.train_ratio, DefaultTrainRatio),
                                 Get(sz.params.val_ratio, DefaultValRatio))]
    /\ UNCHANGED <<splitVars, svcVars, artVars, regVars, preVars, dispVars,
                   httpVars, healthVars, storeVars, trainVars>>

\* _split_time_based: no check of the ratios
SplitTimeBasedSizes ==
    /\ ~sz.done
    /\ sz.strategy = "time_based"
    /\ sz' = [sz EXCEPT
                !.done = TRUE,
                !.out = PartitionSizes(sz.n,
                            Get(sz.params.train_ratio, DefaultTrainRatio),
                            Get(sz.params.val_ratio, DefaultValRatio))]
    /\ UNCHANGED <<splitVars, svcVars, artVars, regVars, preVars, dispVars,
                   httpVars, healthVars, storeVars, trainVars>>

\* _split_entity_based: the entities are cut, no check of the ratios
SplitEntityBasedSizes ==
    /\ ~sz.done
    /\ sz.strategy = "entity_based"
    /\ sz' = [sz EXCEPT
                !.done = TRUE,
                !.out = PartitionSizes(sz.n,
                            Get(sz.params.train_ratio, DefaultTrainRatio),
                            Get(sz.params.val_ratio, DefaultValRatio))]
    /\ UNCHANGED <<splitVars, svcVars, artVars, regVars, preVars, dispVars,
                   httpVars, healthVars, storeVars, trainVars>>

SizeNext ==
    \/ SplitRandomSizes
    \/ SplitTimeBasedSizes
    \/ SplitEntityBasedSizes

ExtIdle ==
    /\ ArtIdle /\ RegIdle /\ PreIdle /\ DispIdle
    /\ HttpIdle /\ HealthIdle /\ StoreIdle /\ TrainIdle /\ SizeIdle

LateIdle == HttpIdle /\ HealthIdle /\ StoreIdle /\ TrainIdle /\ SizeIdle

Next ==
    \/ \E c \in CreateIds : AddCommit(c)
    \/ \E c \in CreateIds : LoadData(c)
    \/ \E c \in CreateIds : SplitData(c)
    \/ \E c \in CreateIds : SaveDataset(c)
    \/ \E c \in CreateIds : FinalCommit(c)
    \/ \E c \in CreateIds : ExceptHandler(c)
    \/ \E u \in UpdateIds : UpdateSelect(u)
    \/ \E u \in UpdateIds : UpdateCommit(u)
    \/ \E d \in DeleteIds : DeleteSelect(d)
    \/ \E d \in DeleteIds : DeleteArtifacts(d)
    \/ \E d \in DeleteIds : DeleteCommit(d)

SvcSplitInit ==
    /\ df = <<>>
    /\ strategy = "random"
    /\ params = DefaultParams
    /\ res1 = NoResult
    /\ res2 = NoResult
    /\ calls = 0

Init == SvcSplitInit /\ SvcInit /\ ExtIdle

Spec == Init /\ [][Next]_vars

-----------------------------------------------------------------------------
(* Two successive calls of split_dataset on the same frame and params *)

SplitInit ==
    /\ df \in Frames
    /\ strategy \in Strategies
    /\ params \in ParamChoices
    /\ res1 = NoResult
    /\ res2 = NoResult
    /\ calls = 0

FirstCall ==
    /\ calls = 0
    /\ res1' \in split_dataset(df, strategy, params)
    /\ calls' = 1
    /\ UNCHANGED <<df, strategy, params, res2, svcVars, extVars>>

SecondCall ==
    /\ calls = 1
    /\ res2' \in split_dataset(df, strategy, params)
    /\ calls' = 2
    /\ UNCHANGED <<df, strategy, params, res1, svcVars, extVars>>

SplitNext == FirstCall \/ SecondCall

InitSplit == SplitInit /\ SvcInit /\ ExtIdle

SpecSplit == InitSplit /\ [][SplitNext]_vars

EarlyIdle ==
    SvcSplitInit /\ SvcInit /\ ArtIdle /\ RegIdle /\ PreIdle /\ DispIdle

-----------------------------------------------------------------------------
(* Saving model and trial artifacts *)

SpecArt == Init /\ [][ArtNext]_vars

-----------------------------------------------------------------------------
(* Registering and promoting model versions *)

SpecReg == Init /\ [][RegNext]_vars

-----------------------------------------------------------------------------
(* Fitting the preprocessing on a frame, then applying it *)

InitPre ==
    /\ SvcSplitInit /\ SvcInit /\ ArtIdle /\ RegIdle /\ PreInit /\ DispIdle
    /\ LateIdle

SpecPre == InitPre /\ [][PreNext]_vars

-----------------------------------------------------------------------------
(* Dispatching a trainer *)

InitDisp ==
    /\ SvcSplitInit /\ SvcInit /\ ArtIdle /\ RegIdle /\ PreIdle /\ DispInit
    /\ LateIdle

SpecDisp == InitDisp /\ [][DispNext]_vars

-----------------------------------------------------------------------------
(* Requests through the middleware and the exception handlers *)

SpecHttp == Init /\ [][HttpNext]_vars

-----------------------------------------------------------------------------
(* The health routes and the GCS client *)

InitHealth ==
    /\ EarlyIdle /\ HttpIdle /\ HealthInit /\ StoreIdle /\ TrainIdle /\ SizeIdle

SpecHealth == InitHealth /\ [][HealthNext]_vars

-----------------------------------------------------------------------------
(* Saving, loading and deleting artifacts by path *)

SpecStore == Init /\ [][StoreNext]_vars

-----------------------------------------------------------------------------
(* Training with each backend *)

InitTrain ==
    /\ EarlyIdle /\ HttpIdle /\ HealthIdle /\ StoreIdle /\ TrainInit /\ SizeIdle

SpecTrain == InitTrain /\ [][TrainNext]_vars

-----------------------------------------------------------------------------
(* The partition sizes of each strategy *)

InitSizes ==
    /\ EarlyIdle /\ HttpIdle /\ HealthIdle /\ StoreIdle /\ TrainIdle /\ SizeInit

SpecSizes == InitSizes /\ [][SizeNext]_vars

-----------------------------------------------------------------------------
(* Properties of the DataSplit lifecycle (checked under Spec) *)

CreateStopped(c) == cs[c].pc \in {"returned", "raised"}

BlobsOf(id) == {b \in gcs : b[1] = id}

\* C1: whenever create_split has stopped with an error, the stored row of that
\* split (when there is one) has status failed: the store does not keep
\* showing pending for it.
C1_FailedWhenRaised ==
    \A c \in CreateIds :
        cs[c].pc = "raised" => (db[c].exists => db[c].status = "failed")

\* C2: a stored DataSplit whose status is ready has its three output URIs and
\* its three row counts set.
C2_ReadyHasOutputs ==
    \A id \in CreateIds :
        (db[id].exists /\ db[id].status = "ready") =>
            /\ db[id].train_uri # Null /\ db[id].val_uri # Null /\ db[id].test_uri # Null
            /\ db[id].row_count_train # Null /\ db[id].row_count_val # Null
            /\ db[id].row_count_test # Null

C2_Witness == \E id \in CreateIds : db[id].exists /\ db[id].status = "ready"

\* C3 as stated: once a stored DataSplit is ready or failed, no step of any
\* operation changes its status or any other of its fields.
C3_FrozenOnceSettled ==
    [][\A id \in CreateIds :
          (db[id].exists /\ db[id].status \in {"ready", "failed"}) => db'[id] = db[id]]_vars

\* C3 as amended: a stored DataSplit never returns to pending, and once its
\* create_split has stopped no step changes its output URIs or row counts and
\* its status changes only to failed (the soft delete of delete_split);
\* split_params may be rewritten by update_split at any time.
C3_SettledOutputsKept ==
    [][\A id \in CreateIds :
          db[id].exists =>
              /\ db'[id].exists
              /\ db'[id].status = "pending" => db[id].status = "pending"
              /\ CreateStopped(id) =>
                    /\ db'[id].train_uri = db[id].train_uri
                    /\ db'[id].val_uri = db[id].val_uri
                    /\ db'[id].test_uri = db[id].test_uri
                    /\ db'[id].row_count_train = db[id].row_count_train
                    /\ db'[id].row_count_val = db[id].row_count_val
                    /\ db'[id].row_count_test = db[id].row_count_test
                    /\ db'[id].status # db[id].status => db'[id].status = "failed"]_vars

\* a split that became ready, whose create_split returned, and that was then
\* soft-deleted
C3_Witness ==
    \E id \in CreateIds :
        cs[id].pc = "returned" /\ db[id].status = "failed" /\ db[id].train_uri # Null

\* C4: a create_split request with neither inline_data nor dataset_uri, once
\* the source check has rejected it, reaches the caller as a validation_error
\* with no DataSplit row and no blob written.
C4_ValidationBeforeSideEffects ==
    \A c \in CreateIds :
        (cs[c].pc = "raised" /\ cs[c].cause = "validation_error"
            /\ cs[c].req.inline_rows = 0 /\ cs[c].req.uri = "") =>
            /\ cs[c].err = "validation_error"
            /\ ~db[c].exists
            /\ BlobsOf(c) = {}

-----------------------------------------------------------------------------
(* Properties of split_dataset (checked under SpecSplit) *)

\* the results the calls made so far have returned
Returned == {r \in ({res1 : k \in 1..Min(calls, 1)} \cup {res2 : k \in 2..calls}) : r.ok}

RowIds(s)  == {s[i].id : i \in DOMAIN s}
EntsIn(s)  == {s[i].e : i \in DOMAIN s}
TimesIn(s) == {s[i].t : i \in DOMAIN s}

IntegerSeed == ~(params.seed.key /\ params.seed.none)

SumOutsideTolerance ==
    LET total == Get(params.train_ratio, DefaultTrainRatio)
                     + Get(params.val_ratio, DefaultValRatio)
                     + Get(params.test_ratio, DefaultTestRatio)
    IN  total < 999 \/ total > 1001

\* C5: every result of a random or time-based split has pairwise disjoint
\* partitions whose union is the set of source rows.
C5_ExactPartition ==
    \A r \in Returned :
        strategy \in {"random", "time_based"} =>
            /\ RowIds(r.train) \cap RowIds(r.val) = {}
            /\ RowIds(r.train) \cap RowIds(r.test) = {}
            /\ RowIds(r.val) \cap RowIds(r.test) = {}
            /\ RowIds(r.train) \cup RowIds(r.val) \cup RowIds(r.test) = 1..Len(df)

\* C6: two calls of the random split on the same frame, with the same ratios
\* and the same integer seed, return the same three partitions, row for row.
C6_RandomDeterministic ==
    (calls = 2 /\ strategy = "random" /\ IntegerSeed) => res1 = res2

C6_Witness ==
    /\ calls = 2 /\ strategy = "random" /\ IntegerSeed
    /\ res1.ok /\ res2.ok
    /\ res1.train # <<>> /\ res1.test # <<>>
    /\ res1.train \o res1.val \o res1.test # df

\* C7: two calls of the entity-based split on the same frame, with the same
\* entity column, ratios and integer seed, put every row in the same partition.
C7_EntityReproducible ==
    (calls = 2 /\ strategy = "entity_based" /\ IntegerSeed /\ res1.ok /\ res2.ok) =>
        /\ RowIds(res1.train) = RowIds(res2.train)
        /\ RowIds(res1.val) = RowIds(res2.val)
        /\ RowIds(res1.test) = RowIds(res2.test)

\* C8: in every result of an entity-based split no entity value appears in
\* more than one of train, val and test.
C8_NoEntityStraddles ==
    \A r \in Returned :
        strategy = "entity_based" =>
            /\ EntsIn(r.train) \cap EntsIn(r.val) = {}
            /\ EntsIn(r.train) \cap EntsIn(r.test) = {}
            /\ EntsIn(r.val) \cap EntsIn(r.test) = {}

\* C9: in every result of a time-based split every time value of train is <=
\* every time value of val, and every time value of val is <= every time
\* value of test.
C9_TimeOrdered ==
    \A r \in Returned :
        strategy = "time_based" =>
            /\ \A x \in TimesIn(r.train), y \in TimesIn(r.val) : x <= y
            /\ \A y \in TimesIn(r.val), z \in TimesIn(r.test) : y <= z

C9_Witness ==
    /\ calls >= 1 /\ strategy = "time_based" /\ res1.ok
    /\ res1.train # <<>> /\ res1.val # <<>> /\ res1.test # <<>>
    /\ \E i, j \in DOMAIN df : i < j /\ df[i].t > df[j].t

\* C10 as stated: with a ratio sum outside [0.999, 1.001] the call (here on a
\* frame that has rows) fails with a data-processing error and no partitions,
\* for each of the three strategies.
C10_BadSumFailsEveryStrategy ==
    (calls >= 1 /\ SumOutsideTolerance /\ df # <<>>
        /\ strategy \in {"random", "time_based", "entity_based"}) =>
        res1 = Failure(DataProcessingError)

\* C10 as amended: with a ratio sum outside [0.999, 1.001] a call with
\* strategy random fails with a data-processing error and no partitions.
C10_BadSumFailsRandom ==
    (SumOutsideTolerance /\ strategy = "random") =>
        /\ calls >= 1 => res1 = Failure(DataProcessingError)
        /\ calls = 2 => res2 = Failure(DataProcessingError)

C10_Witness ==
    /\ calls >= 1 /\ strategy = "random" /\ SumOutsideTolerance
    /\ df # <<>> /\ res1 = Failure(DataProcessingError)

-----------------------------------------------------------------------------
(* Properties of artifact_io (checked under SpecArt) *)

ModelBlobsOf(call) ==
    {BlobKey("models", call.exp, call.num, ModelArtifactFiles(call.model_type)[i]) :
        i \in 1..5}

\* C11: save_model_artifacts is all-or-nothing per call: when the call has
\* returned, the five blobs of that version are in the store; when it has
\* failed, it raised an external-service error and none of the blobs that
\* call uploaded remains in the store.
C11_AllOrNothing ==
    /\ sm.pc = "returned" => ModelBlobsOf(sm) \subseteq blobs
    /\ sm.pc = "raised" =>
           /\ sm.err = ExternalServiceError
           /\ sm.written \cap blobs = {}

\* C12: save_trial_artifacts never raises: a call in which serialization or
\* an upload failed returns the empty string, and a call returns the trial's
\* base URI only after it uploaded both the model blob and metadata.json.
C12_TrialSaveNeverRaises ==
    /\ st.pc # "raised"
    /\ st.pc = "returned" =>
           /\ st.failed => st.uri = NoUri
           /\ st.uri # NoUri =>
                  /\ st.uri = BaseUri("experiments", st.exp, st.num)
                  /\ st.written =
                         {BlobKey("experiments", st.exp, st.num, "metadata.json"),
                          BlobKey("experiments", st.exp, st.num,
                                  "model" \o get_model_extension(st.model_type))}
                  /\ st.written \subseteq blobs

\* a trial save whose metadata.json upload failed after its model blob was
\* uploaded
C12_Witness ==
    /\ st.pc = "returned"
    /\ st.failed
    /\ st.written # {}

-----------------------------------------------------------------------------
(* Properties of the model registry (checked under SpecReg) *)

RowsOfExperiment(e) == {i \in 1..Len(reg) : reg[i].exp = e}

\* C13: a registry row is created in stage staging, and in every step a row's
\* stage either stays or moves along staging -> production,
\* staging -> archived or production -> archived: an archived row never
\* changes stage again, whatever target a promote request names, and a
\* production row never returns to staging.
C13_StageMachine ==
    [][/\ Len(reg') >= Len(reg)
       /\ \A i \in 1..Len(reg) :
              /\ reg'[i].stage # reg[i].stage =>
                     <<reg[i].stage, reg'[i].stage>> \in
                         {<<"staging", "production">>,
                          <<"staging", "archived">>,
                          <<"production", "archived">>}
              /\ reg[i].stage = "archived" => reg'[i].stage = "archived"
              /\ reg[i].stage = "production" => reg'[i].stage # "staging"
       /\ \A i \in (Len(reg) + 1)..Len(reg') : reg'[i].stage = "staging"]_vars

\* a promote request naming an archived row has been answered
C13_Witness ==
    /\ rc["promote"].pc = "rejected"
    /\ rc["promote"].row \in 1..Len(reg)
    /\ reg[rc["promote"].row].stage = "archived"

\* C14: for each experiment, the k-th row created for it has version k (so
\* the versions are 1, 2, 3, ... without gaps, each the previous maximum
\* plus 1), and no two rows of one experiment share a version.
C14_VersionsSequential ==
    \A e \in RegExperiments :
        /\ \A i \in RowsOfExperiment(e) :
               reg[i].version = Cardinality({j \in RowsOfExperiment(e) : j <= i})
        /\ \A i, j \in RowsOfExperiment(e) :
               i # j => reg[i].version # reg[j].version

\* an experiment has versions 1 and 2 and an overlapping registration was
\* turned away by the unique index
C14_Witness ==
    /\ \E e \in RegExperiments : Cardinality(RowsOfExperiment(e)) >= 2
    /\ \E c \in RegCreators : rc[c].pc = "conflict"

-----------------------------------------------------------------------------
(* Properties of preprocessing (checked under SpecPre) *)

\* C15: round trip: applying the returned artifacts to the fitting frame
\* without the rows fit dropped succeeds and gives, in every row and feature
\* column, the value preprocess_features produced.
C15_RoundTrip ==
    (app.done /\ ain = FittingFrame) => (app.ok /\ app.X = fit.X)

\* C16: at apply time a value of the categorical column c that is a key of
\* the stored map is encoded as its stored code and every other value, null
\* included, is encoded as -1; apply_preprocessing does not raise.
C16_UnknownIsMinusOne ==
    (app.done /\ "c" \in Range(pin.feature_columns)) =>
        /\ app.ok
        /\ \A i \in DOMAIN ain :
               LET cell == ain[i]["c"]
                   cmap == fit.artifacts.category_maps["c"]
               IN app.X[i]["c"] =
                      IF cell # Null /\ cell[1] \in DOMAIN cmap
                      THEN <<cmap[cell[1]], 1>>
                      ELSE <<-1, 1>>

\* a value unseen at fit time was encoded with a non-empty stored map
C16_Witness ==
    /\ app.done
    /\ "c" \in Range(pin.feature_columns)
    /\ DOMAIN fit.artifacts.category_maps["c"] # {}
    /\ ain = <<[c |-> Num(3), x |-> Null, y |-> Num(7)]>>
    /\ app.X[1]["c"] = <<-1, 1>>

\* C17: for the string feature column, the category map returned by
\* preprocess_features is stored under artifacts.category_maps, its keys are
\* the distinct non-null values of the rows fit works on, its codes are
\* exactly 0..k-1, and a smaller value has a smaller code.
C17_CategoryMapBijection ==
    (fit.done /\ fit.ok /\ "c" \in Range(pin.feature_columns)) =>
        /\ "category_maps" \in fit.artifacts.keys
        /\ "c" \in DOMAIN fit.artifacts.category_maps
        /\ LET cmap == fit.artifacts.category_maps["c"]
               vals == {FittingFrame[i]["c"][1] :
                           i \in {j \in DOMAIN FittingFrame :
                                      FittingFrame[j]["c"] # Null}}
           IN /\ DOMAIN cmap = vals
              /\ {cmap[v] : v \in vals} = 0..(Cardinality(vals) - 1)
              /\ \A v, w \in vals : v < w => cmap[v] < cmap[w]

\* two values met in descending order at fit time
C17_Witness ==
    /\ fit.done
    /\ fit.ok
    /\ "c" \in Range(pin.feature_columns)
    /\ Len(fit.X) = 2
    /\ pin.df[1]["c"] = Num(2)
    /\ pin.df[2]["c"] = Num(1)

\* C18: with missing_strategy fill_mean the returned artifacts hold the
\* fitting-time mean of the numeric column x, and apply_preprocessing
\* replaces a null of x by that mean.
C18_FillMeanStored ==
    (app.done /\ pin.missing_strategy = <<"fill_mean">>
              /\ "x" \in Range(pin.feature_columns)) =>
        /\ \E k \in fit.artifacts.keys : k # "category_maps"
        /\ \A i \in DOMAIN ain :
               ain[i]["x"] = Null => app.X[i]["x"] = Mean(Column(pin.df, "x"))

\* C19: when a feature column or the target column is not a column of the
\* frame, preprocess_features fails with a data-processing error that lists
\* exactly the missing columns and returns no X, y or artifacts.
C19_MissingColumnsFail ==
    LET missing == (Range(pin.feature_columns) \cup {pin.target_column})
                       \ {"c", "x", "y"}
    IN (fit.done /\ missing # {}) =>
           /\ ~fit.ok
           /\ fit.err = "data_processing_error"
           /\ fit.text = "Missing columns"
           /\ fit.cols = missing
           /\ fit.X = <<>>
           /\ fit.y = <<>>
           /\ fit.artifacts.keys = {}

\* a call naming the absent feature z and the absent target w on a frame
\* with rows
C19_Witness ==
    /\ fit.done
    /\ pin.feature_columns = <<"c", "x", "z">>
    /\ pin.target_column = "w"
    /\ Len(pin.df) = 2
    /\ fit.cols = {"z", "w"}

-----------------------------------------------------------------------------
(* Properties of the trainer dispatcher (checked under SpecDisp) *)

\* C20: get_trainer returns a trainer for each of the 6 combinations of a
\* backend in {catboost, xgboost, lightgbm} and a task kind in
\* {classification, regression}, and it is the trainer of the requested
\* backend; for any other backend name or task kind it raises a validation
\* error and returns no trainer.
C20_Dispatch ==
    disp.trainer.done =>
        IF /\ disp.model_type \in {"catboost", "xgboost", "lightgbm"}
           /\ disp.task_type \in {"classification", "regression"}
        THEN /\ disp.trainer.ok
             /\ <<disp.model_type, disp.trainer.value>> \in
                    {<<"catboost", "CatBoostTrainer">>,
                     <<"xgboost", "XGBoostTrainer">>,
                     <<"lightgbm", "LightGBMTrainer">>}
        ELSE /\ ~disp.trainer.ok
             /\ disp.trainer.err = "validation_error"
             /\ disp.trainer.value = ""

\* the lightgbm trainer was returned for a regression task
C20_Witness ==
    /\ disp.trainer.done
    /\ disp.trainer.ok
    /\ disp.model_type = "lightgbm"
    /\ disp.task_type = "regression"

-----------------------------------------------------------------------------
(* Properties of request handling (checked under SpecHttp) *)

\* C21: every error response that was sent carries a code, a message and a
\* request_id; the request_id is the X-Request-ID header of the request when
\* one was sent, otherwise the identifier generated for the request; and the
\* response's X-Request-ID header carries the same identifier.
C21_ErrorCarriesRequestId ==
    (http.pc = "sent" /\ http.response.error) =>
        /\ {"code", "message", "request_id"} \subseteq http.response.body.keys
        /\ http.response.body.code # ""
        /\ http.response.body.request_id = Get(http.header, http.generated)
        /\ http.response.x_request_id = <<http.response.body.request_id>>

-----------------------------------------------------------------------------
(* Properties of the health routes and the GCS client (checked under       *)
(* SpecHealth)                                                              *)

\* C22: whatever is reachable and whatever was requested before, the answer
\* of GET /healthz is 200 with status "ok" and the configured service name.
C22_HealthzAlwaysOk ==
    hres.op = "healthz" =>
        /\ hres.status_code = 200
        /\ hres.status = "ok"
        /\ hres.service = app_name

\* /healthz answered after earlier requests, with the database unreachable
\* and the bucket missing
C22_Witness ==
    /\ hres.op = "healthz"
    /\ hcalls >= 2
    /\ ~world.database
    /\ ~world.bucket_exists
    /\ gclient._bucket # NoBucket

\* C24: when the bucket does not exist, every access to the bucket property
\* raises the external-service error, every verify_connectivity returns
\* false, and the gcs check of /readyz is false, on every call.
C24_MissingBucketNeverOk ==
    ~world.bucket_exists =>
        /\ hres.op = "bucket" => hres.raised = ExternalServiceError
        /\ hres.op = "verify_connectivity" => ~hres.returned
        /\ hres.op = "readyz" => ~hres.checks.gcs

-----------------------------------------------------------------------------
(* Properties of the artifact paths (checked under SpecStore) *)

\* every key a saving call can write for an entity
KeysOfEntity(entity) ==
    UNION {{PathOf(BasePathOf(entity), file) : file \in Range(FilesOf(entity, t))} :
              t \in SavedModelTypes}

\* C23: delete_model_artifacts with the URI of version v of an experiment
\* deletes no blob of another version w of that experiment.
C23_DeleteKeepsOtherVersions ==
    sop.kind = "delete" =>
        \A w \in StoreVersions \ {sop.entity[3]} :
            \A t \in SavedModelTypes, f \in 1..5 :
                PathOf(ModelBasePath(sop.entity[2], w),
                       ModelArtifactFiles(t)[f]) \notin sop.deleted

\* the five blobs of the loaded version are in the store, all written by one
\* saving call with the model type the load names
SavedAndUntouched(call) ==
    /\ sop.kind = "load"
    /\ sop.uri = UriOf(ModelBasePath(sop.entity[2], sop.entity[3]))
    /\ \A f \in 1..5 :
           LET file == ModelArtifactFiles(sop.model_type)[f]
               key == PathOf(ModelBasePath(sop.entity[2], sop.entity[3]), file)
           IN /\ key \in DOMAIN store
              /\ store[key] = Blob(call, sop.entity, file, sop.model_type)

\* the blobs the load returned are those of the saving call
LoadedAsSaved(call) ==
    /\ sop.ok
    /\ \A file \in {ModelFile(sop.model_type), "preprocess.json",
                    "postprocess.json", "signature.json"} :
           \E i \in DOMAIN sop.loaded :
               sop.loaded[i] = Blob(call, sop.entity, file, sop.model_type)

C28_KeysDisjoint ==
    sop.kind \in {"create_split", "save_model", "save_trial"} =>
        \A other \in StoreEntities \ {sop.entity} :
            KeysOfEntity(other) \cap sop.written = {}

\* version 1 is saved while the store holds blobs of version 10 of the same
\* experiment
C28_Witness ==
    /\ sop.kind = "save_model"
    /\ sop.ok
    /\ sop.entity = ModelEntity("e1", 1)
    /\ \E k \in DOMAIN store : store[k].entity = ModelEntity("e1", 10)

-----------------------------------------------------------------------------
(* Properties of the trainers (checked under SpecTrain) *)

\* C30: train of each backend either returns a model and metrics whose keys
\* are exactly auc and accuracy for classification and exactly rmse and mae
\* for regression, or raises the model-training error and nothing else.
C30_TrainReturnsOrRaisesTrainingError ==
    trn.out.done =>
        IF trn.out.returned
        THEN /\ trn.out.raised = ""
             /\ trn.task_type = "classification" =>
                    trn.out.metrics = {"auc", "accuracy"}
             /\ trn.task_type = "regression" =>
                    trn.out.metrics = {"rmse", "mae"}
        ELSE trn.out.raised = ModelTrainingError

\* the conversion of the frames fails inside train of the LightGBM trainer
C30_Witness ==
    /\ trn.out.done
    /\ trn.out.backend = "LightGBM"
    /\ trn.fault.stage = "to_pandas"
    /\ trn.out.raised = ModelTrainingError

-----------------------------------------------------------------------------
(* The DataSplit lifecycle as a concurrent reader sees it (checked under   *)
(* Spec)                                                                    *)

\* C25: in every state, a DataSplit whose stored status is ready has its
\* train, val and test blobs in the object store.
C25_ReadyHasBlobs ==
    \A id \in CreateIds :
        (db[id].exists /\ db[id].status = "ready") =>
            \A part \in Parts : <<id, part>> \in gcs

-----------------------------------------------------------------------------
(* Properties of the partition sizes (checked under SpecSizes) *)

\* each ratio is in [0, 1] and the three sum to 1.0 within 0.001
RatiosInRange ==
    LET t == Get(sz.params.train_ratio, DefaultTrainRatio)
        v == Get(sz.params.val_ratio, DefaultValRatio)
        r == Get(sz.params.test_ratio, DefaultTestRatio)
    IN  /\ {t, v, r} \subseteq 0..1000
        /\ t + v + r \in 999..1001

-----------------------------------------------------------------------------
(* Dropping rows with missing features (checked under SpecPre) *)

\* C29: with missing_strategy drop (the default), the rows of X and of y are
\* the source rows without a null in any feature column, in source order:
\* X and y have the same length and their rows at one position come from
\* the same source row.
C29_DropInLockstep ==
    (fit.done /\ fit.ok /\ Get(pin.missing_strategy, "drop") = "drop") =>
        LET src == pin.df
            complete == {i \in DOMAIN src :
                            \A col \in Range(pin.feature_columns) :
                                src[i][col] # Null}
            pos(i) == Cardinality({j \in complete : j <= i})
        IN  /\ Len(fit.X) = Cardinality(complete)
            /\ Len(fit.y) = Len(fit.X)
            /\ \A i \in complete :
                   /\ fit.y[pos(i)] = src[i][pin.target_column]
                   /\ "x" \in Range(pin.feature_columns) =>
                          fit.X[pos(i)]["x"] = src[i]["x"]
                   /\ "c" \in Range(pin.feature_columns) =>
                          fit.X[pos(i)]["c"] =
                              <<fit.artifacts.category_maps["c"][src[i]["c"][1]], 1>>

\* the first of two rows has a null feature and is dropped; the second stays
C29_Witness ==
    /\ fit.done
    /\ fit.ok
    /\ pin.missing_strategy = Absent
    /\ pin.feature_columns = <<"c", "x">>
    /\ Len(pin.df) = 2
    /\ pin.df[1]["x"] = Null
    /\ Len(fit.X) = 1
    /\ fit.y = <<pin.df[2]["y"]>>

====
